---- MODULE Spec2Model ----
(***************************************************************************)
(* Model of pscube_hits_crawl_and_aggregate.py: text normalisation and     *)
(* machine-identifier extraction, the response ring, per-batch identifier  *)
(* resolution, and the per-card fallback cascade.                          *)
(*                                                                         *)
(* Text is a sequence of characters; a character is a one-token string.    *)
(* Non-ASCII characters are written as ASCII tokens:                       *)
(*   "DAI" = U+53F0 (tai/dai, "unit"), "BAN" = U+756A, "GOU" = U+53F7,     *)
(*   "DA" "II" = hiragana da, i;  "FW1".."FW9" = full-width digits,        *)
(*   "FWCOLON" = full-width colon, "FWMINUS" = full-width hyphen-minus,    *)
(*   "NL" = newline, "FWG" = full-width G; katakana: "kBI" "kTSU" "kGU"   *)
(*   (biggu), "kRE" "kGI" "kYU" "kRA" (regyura), "kGE" "kLONG" "kMU" (geemu).*)
(* Python's None and the empty string are both the empty sequence: every   *)
(* use of an optional string in the source tests its truthiness only.      *)
(***************************************************************************)
EXTENDS Integers, Sequences, FiniteSets, TLC

None == <<>>

\* ------------------------------------------------------------------ bounds
MaxRun == 7         \* longest digit run of an identifier-extraction input
MaxCap == 2         \* largest ring capacity
MaxPush == 4        \* pushes in one ring run
MaxEls == 2         \* elements of a page of a batch run
MaxResp == 1        \* responses captured before the extraction of a batch run

\* CONFIG["resp_max_bytes"]
RespMaxBytes == 1800000

\* -------------------------------------------------------------- characters
AsciiDigit == {"0", "1", "2", "3", "4", "5", "6", "7", "8", "9"}
FullDigit == {"FW1", "FW2", "FW3", "FW4", "FW5", "FW6", "FW7", "FW8", "FW9"}
WhiteSpace == {" ", "NL"}

\* unicodedata.normalize("NFKC", .) on one character of the alphabet
NFKCChar(c) ==
    CASE c = "FW1" -> "1" [] c = "FW2" -> "2" [] c = "FW3" -> "3"
      [] c = "FW4" -> "4" [] c = "FW5" -> "5" [] c = "FW6" -> "6"
      [] c = "FW7" -> "7" [] c = "FW8" -> "8" [] c = "FW9" -> "9"
      [] c = "FWCOLON" -> ":" [] c = "FWMINUS" -> "-" [] c = "FWG" -> "G"
      [] c = "FWB" -> "B" [] c = "FWI" -> "I" [] c = "FWR" -> "R" [] c = "FWE" -> "E"
      [] OTHER -> c

NFKC(s) == [i \in 1..Len(s) |-> NFKCChar(s[i])]

\* s.replace(",", " ")
ReplaceComma(s) == [i \in 1..Len(s) |-> IF s[i] = "," THEN " " ELSE s[i]]

\* re.sub(r"\s+", " ", s): every maximal whitespace run becomes one space
RECURSIVE CollapseWs(_)
CollapseWs(s) ==
    IF s = <<>> THEN <<>>
    ELSE IF Head(s) \in WhiteSpace
         THEN IF Len(s) >= 2 /\ s[2] \in WhiteSpace
              THEN CollapseWs(Tail(s))
              ELSE <<" ">> \o CollapseWs(Tail(s))
         ELSE <<Head(s)>> \o CollapseWs(Tail(s))

\* str.strip()
RECURSIVE LStrip(_)
LStrip(s) == IF s # <<>> /\ Head(s) \in WhiteSpace THEN LStrip(Tail(s)) ELSE s

RECURSIVE RStrip(_)
RStrip(s) ==
    IF s # <<>> /\ s[Len(s)] \in WhiteSpace
    THEN RStrip(SubSeq(s, 1, Len(s) - 1)) ELSE s

_normalize_text(s) == RStrip(LStrip(CollapseWs(ReplaceComma(NFKC(s)))))

\* ------------------------------------------------------------ regex pieces
ReDigit(c) == c \in AsciiDigit \cup FullDigit        \* [0-9０-９]
PlainDigit(c) == c \in AsciiDigit                      \* [0-9]

\* \w of a Python str pattern: letters (CJK and kana included), digits, "_"
NonWord == WhiteSpace \cup {":", "FWCOLON", "#", "-", "FWMINUS", ".", ",", "|", "=", "+"}
IsWord(c) == c \notin NonWord

CharAt(t, i) == IF i >= 1 /\ i <= Len(t) THEN t[i] ELSE "EOT"
WordAt(t, i) == i >= 1 /\ i <= Len(t) /\ IsWord(t[i])

\* \b at the position between character p and character p + 1 (p in 0..Len)
Boundary(t, p) == WordAt(t, p) # WordAt(t, p + 1)

\* number of consecutive characters satisfying the class from index i on
RECURSIVE RunLen(_, _)
RunLen(t, i) ==
    IF i <= Len(t) /\ ReDigit(t[i]) THEN 1 + RunLen(t, i + 1) ELSE 0

RECURSIVE PlainRunLen(_, _)
PlainRunLen(t, i) ==
    IF i <= Len(t) /\ PlainDigit(t[i]) THEN 1 + PlainRunLen(t, i + 1) ELSE 0

RECURSIVE SkipIn(_, _, _)
SkipIn(t, i, class) ==
    IF i <= Len(t) /\ t[i] \in class THEN SkipIn(t, i + 1, class) ELSE i

Min(a, b) == IF a <= b THEN a ELSE b

\* re.IGNORECASE on the letters of the alphabet
Lower(c) ==
    CASE c = "N" -> "n" [] c = "O" -> "o" [] c = "B" -> "b" [] c = "I" -> "i"
      [] c = "G" -> "g" [] c = "R" -> "r" [] c = "E" -> "e" [] OTHER -> c
\* str.upper() on the letters of the alphabet
Upper(c) ==
    CASE c = "n" -> "N" [] c = "o" -> "O" [] c = "b" -> "B" [] c = "i" -> "I"
      [] c = "g" -> "G" [] c = "r" -> "R" [] c = "e" -> "E" [] c = "x" -> "X"
      [] OTHER -> c
StartsWith(t, i, w) ==
    /\ i + Len(w) - 1 <= Len(t)
    /\ \A k \in 1..Len(w) : t[i + k - 1] = w[k]
StartsWithCI(t, i, w) ==
    /\ i + Len(w) - 1 <= Len(t)
    /\ \A k \in 1..Len(w) : Lower(t[i + k - 1]) = Lower(w[k])

NoMatch == [ok |-> FALSE, groups |-> <<>>]
Match(gs) == [ok |-> TRUE, groups |-> gs]

\* first element of a sequence of match results that matched
RECURSIVE FirstOk(_)
FirstOk(ms) ==
    IF ms = <<>> THEN NoMatch
    ELSE IF Head(ms).ok THEN Head(ms) ELSE FirstOk(Tail(ms))

\* ------------------------------------------------- identifier extraction
\* re.search(r"[0-9]{2,5}", s): leftmost run start, greedy up to 5 digits
RECURSIVE FirstPlainRun(_, _)
FirstPlainRun(t, i) ==
    IF i > Len(t) THEN None
    ELSE IF PlainRunLen(t, i) >= 2
         THEN SubSeq(t, i, i + Min(5, PlainRunLen(t, i)) - 1)
         ELSE FirstPlainRun(t, i + 1)

_to_dai_str(s) == IF s = None THEN None ELSE FirstPlainRun(_normalize_text(s), 1)

\* RE_DAI_LABEL  (台番|台番号)\s*[:：#]?\s*([0-9０-９]{2,5})
\* groups: (label, digits)
LabelAlt(t, i, w) ==
    IF ~StartsWith(t, i, w) THEN NoMatch
    ELSE LET a == SkipIn(t, i + Len(w), WhiteSpace)
             b == IF CharAt(t, a) \in {":", "FWCOLON", "#"} THEN a + 1 ELSE a
             c == SkipIn(t, b, WhiteSpace)
             \* the optional separator may also be left unmatched
             q == IF RunLen(t, c) >= 2 THEN c ELSE a
         IN IF RunLen(t, q) >= 2
            THEN Match(<<w, SubSeq(t, q, q + Min(5, RunLen(t, q)) - 1)>>)
            ELSE NoMatch

RE_DAI_LABEL_At(t, i) ==
    FirstOk(<<LabelAlt(t, i, <<"DAI", "BAN">>), LabelAlt(t, i, <<"DAI", "BAN", "GOU">>)>>)

RE_DAI_LABEL(t) == FirstOk([i \in 1..(Len(t) + 1) |-> RE_DAI_LABEL_At(t, i)])

\* RE_DAI_GENERIC  (?:台|No\.?|NO\.?|台番|台番号|#)\s*[:：#\- ]*\s*([0-9０-９]{2,5})
\* with re.IGNORECASE; groups: (digits)
GenericSeps == {":", "FWCOLON", "#", "-", " "}
GenericAlts ==
    << <<"DAI">>, <<"N", "o", ".">>, <<"N", "o">>, <<"DAI", "BAN">>,
       <<"DAI", "BAN", "GOU">>, <<"#">> >>

GenericAlt(t, i, w) ==
    IF ~StartsWithCI(t, i, w) THEN NoMatch
    ELSE LET q == SkipIn(t, SkipIn(t, SkipIn(t, i + Len(w), WhiteSpace), GenericSeps), WhiteSpace)
         IN IF RunLen(t, q) >= 2
            THEN Match(<<SubSeq(t, q, q + Min(5, RunLen(t, q)) - 1)>>)
            ELSE NoMatch

RE_DAI_GENERIC_At(t, i) ==
    FirstOk([a \in 1..Len(GenericAlts) |-> GenericAlt(t, i, GenericAlts[a])])

RE_DAI_GENERIC(t) == FirstOk([i \in 1..(Len(t) + 1) |-> RE_DAI_GENERIC_At(t, i)])

\* RE_DAI_ONLYNUM  (?:\b|^)\s*([0-9０-９]{2,5})\s*(?:台)?\b
\* at index i the match starts at the position before character i
OnlyNumEnds(t, e) ==
    \* after the digits (ending at index e): \s* then 台? then \b
    \E j \in 0..(SkipIn(t, e + 1, WhiteSpace) - (e + 1)) :
        \/ CharAt(t, e + j + 1) = "DAI" /\ Boundary(t, e + j + 1)
        \/ Boundary(t, e + j)

RE_DAI_ONLYNUM_At(t, i) ==
    IF ~(Boundary(t, i - 1) \/ i = 1) THEN NoMatch
    ELSE LET q == SkipIn(t, i, WhiteSpace)
             ks == {k \in 2..Min(5, RunLen(t, q)) : OnlyNumEnds(t, q + k - 1)}
         IN IF ks = {} THEN NoMatch
            ELSE LET k == CHOOSE x \in ks : \A y \in ks : y <= x
                 IN Match(<<SubSeq(t, q, q + k - 1)>>)

RE_DAI_ONLYNUM(t) == FirstOk([i \in 1..(Len(t) + 1) |-> RE_DAI_ONLYNUM_At(t, i)])

\* RE_DAI_NEAR  (?:台|だい)[^0-9０-９]{0,8}([0-9０-９]{2,5})
\*            | ([0-9０-９]{2,5})[^0-9０-９]{0,8}(?:台|だい)
\* groups: (digits after the unit word, digits before the unit word)
NearWords == << <<"DAI">>, <<"DA", "II">> >>
NearWindow == 8

RECURSIVE NonDigitRun(_, _)
NonDigitRun(t, i) ==
    IF i <= Len(t) /\ ~ReDigit(t[i]) THEN 1 + NonDigitRun(t, i + 1) ELSE 0

NearAfter(t, i, w) ==
    IF ~StartsWith(t, i, w) THEN NoMatch
    ELSE LET p == i + Len(w)
             q == p + NonDigitRun(t, p)
         IN IF q - p <= NearWindow /\ RunLen(t, q) >= 2
            THEN Match(<<SubSeq(t, q, q + Min(5, RunLen(t, q)) - 1), None>>)
            ELSE NoMatch

NearBefore(t, i) ==
    LET r == RunLen(t, i)
        e == i + r
    IN IF r >= 2 /\ r <= 5
          /\ \E j \in 0..Min(NearWindow, NonDigitRun(t, e)) :
                \E a \in 1..Len(NearWords) : StartsWith(t, e + j, NearWords[a])
       THEN Match(<<None, SubSeq(t, i, e - 1)>>)
       ELSE NoMatch

RE_DAI_NEAR_At(t, i) ==
    FirstOk(<<NearAfter(t, i, NearWords[1]), NearAfter(t, i, NearWords[2]), NearBefore(t, i)>>)

RE_DAI_NEAR(t) == FirstOk([i \in 1..(Len(t) + 1) |-> RE_DAI_NEAR_At(t, i)])

\* for grp in m.groups(): if grp: g = grp; break
RECURSIVE FirstTruthy(_)
FirstTruthy(gs) ==
    IF gs = <<>> THEN None
    ELSE IF Head(gs) # None THEN Head(gs) ELSE FirstTruthy(Tail(gs))

\* the body of the for-loop of _extract_dai_from_text for one pattern's match
DaiOfMatch(m) ==
    IF ~m.ok THEN None
    ELSE LET g == _to_dai_str(FirstTruthy(m.groups))
         IN IF g # None /\ 2 <= Len(g) /\ Len(g) <= 5 THEN g ELSE None

_extract_dai_from_text(text) ==
    IF text = None THEN None
    ELSE LET t == _normalize_text(text)
         IN FirstTruthy(<<DaiOfMatch(RE_DAI_LABEL(t)), DaiOfMatch(RE_DAI_GENERIC(t)),
                          DaiOfMatch(RE_DAI_ONLYNUM(t)), DaiOfMatch(RE_DAI_NEAR(t))>>)

\* ----------------------------------------------------------- hit extraction
\* int(): optional sign, then decimal digits only
DigitVal(c) ==
    CASE c = "0" -> 0 [] c = "1" -> 1 [] c = "2" -> 2 [] c = "3" -> 3 [] c = "4" -> 4
      [] c = "5" -> 5 [] c = "6" -> 6 [] c = "7" -> 7 [] c = "8" -> 8 [] c = "9" -> 9

RECURSIVE DigitsVal(_)
DigitsVal(ds) ==
    IF ds = <<>> THEN 0 ELSE 10 * DigitsVal(SubSeq(ds, 1, Len(ds) - 1)) + DigitVal(ds[Len(ds)])

NoInt == [ok |-> FALSE, v |-> 0]
PyInt(s) ==
    LET signed == s # <<>> /\ Head(s) \in {"-", "+"}
        ds == IF signed THEN Tail(s) ELSE s
    IN IF ds # <<>> /\ \A i \in 1..Len(ds) : PlainDigit(ds[i])
       THEN [ok |-> TRUE, v |-> IF signed /\ Head(s) = "-" THEN 0 - DigitsVal(ds) ELSE DigitsVal(ds)]
       ELSE NoInt

\* .replace(" ", "")
RECURSIVE RemoveSpaces(_)
RemoveSpaces(s) ==
    IF s = <<>> THEN <<>>
    ELSE IF Head(s) = " " THEN RemoveSpaces(Tail(s)) ELSE <<Head(s)>> \o RemoveSpaces(Tail(s))

\* None is [ok |-> FALSE]
_num_to_int(num_raw) == PyInt(RemoveSpaces(_normalize_text(num_raw)))

Contains(s, w) == \E i \in 1..Len(s) : StartsWith(s, i, w)

KindToStdRegOnly(kind_raw) ==
    LET k == [i \in 1..Len(kind_raw) |-> Upper(NFKCChar(kind_raw[i]))]
    IN IF Contains(k, <<"R", "E", "G">>) THEN "REG" ELSE "BIG"

_kind_to_std(kind_raw) ==
    LET k == [i \in 1..Len(kind_raw) |-> Upper(NFKCChar(kind_raw[i]))]
    IN IF \/ Contains(k, <<"R", "E", "G">>)
          \/ (Contains(k, <<"R">>) /\ Contains(k, <<"B">>))
          \/ Contains(k, <<"kRE", "kGI", "kYU">>)
          \/ k = <<"R", "B">>
       THEN "REG" ELSE "BIG"

\* RE_NUM_G  (?P<num>[0-9０-９,]{1,6})\s*(?:G|ｇ|Ｇ|ゲーム)?
NumClass == AsciiDigit \cup FullDigit \cup {","}
RECURSIVE NumRunLen(_, _)
NumRunLen(t, i) ==
    IF i <= Len(t) /\ t[i] \in NumClass THEN 1 + NumRunLen(t, i + 1) ELSE 0

UnitAlts == << <<"G">>, <<"FWG">>, <<"kGE", "kLONG", "kMU">> >>

\* index after the unit suffix matched at i, or 0
UnitEnd(t, i) ==
    IF StartsWithCI(t, i, UnitAlts[1]) THEN i + 1
    ELSE IF StartsWithCI(t, i, UnitAlts[2]) THEN i + 1
    ELSE IF StartsWithCI(t, i, UnitAlts[3]) THEN i + 3
    ELSE 0

\* RE_KIND  BIG|ＢＩＧ|B\W*B|ビッグ|REG|ＲＥＧ|R\W*B|レギュラ|RB|ＲＢ|BB|ＢＢ  (IGNORECASE)
\* the index after alternative a matched at i, or 0. The full-width
\* alternatives are the ASCII ones: the scanned text is NFKC-normalised.
NonWordRun(t, i) == SkipIn(t, i, NonWord)
KindAltEnd(t, i, a) ==
    CASE a = 1 -> IF StartsWithCI(t, i, <<"B", "I", "G">>) THEN i + 3 ELSE 0
      [] a = 2 -> IF StartsWithCI(t, i, <<"B">>) /\ StartsWithCI(t, NonWordRun(t, i + 1), <<"B">>)
                  THEN NonWordRun(t, i + 1) + 1 ELSE 0
      [] a = 3 -> IF StartsWith(t, i, <<"kBI", "kTSU", "kGU">>) THEN i + 3 ELSE 0
      [] a = 4 -> IF StartsWithCI(t, i, <<"R", "E", "G">>) THEN i + 3 ELSE 0
      [] a = 5 -> IF StartsWithCI(t, i, <<"R">>) /\ StartsWithCI(t, NonWordRun(t, i + 1), <<"B">>)
                  THEN NonWordRun(t, i + 1) + 1 ELSE 0
      [] a = 6 -> IF StartsWith(t, i, <<"kRE", "kGI", "kYU", "kRA">>) THEN i + 4 ELSE 0
NKindAlts == 6

NoHit == [ok |-> FALSE, num |-> <<>>, kind |-> <<>>, end |-> 0]
Hit(n, k, e) == [ok |-> TRUE, num |-> n, kind |-> k, end |-> e]

\* RE_HIT_INLINE_1 = NUM_G \s* KIND, tried at start index i
\* backtracking order: longest num first; with the unit suffix before without
Inline1Try(t, i, k, unit) ==
    LET a == SkipIn(t, i + k, WhiteSpace)
        u == UnitEnd(t, a)
        b == IF unit THEN u ELSE a
        c == SkipIn(t, b, WhiteSpace)
    IN IF unit /\ u = 0 THEN NoHit
       ELSE FirstOk([x \in 1..NKindAlts |->
                IF KindAltEnd(t, c, x) > 0
                THEN Hit(SubSeq(t, i, i + k - 1), SubSeq(t, c, KindAltEnd(t, c, x) - 1),
                         KindAltEnd(t, c, x))
                ELSE NoHit])

RE_HIT_INLINE_1_At(t, i) ==
    LET n == Min(6, NumRunLen(t, i))
    IN FirstOk([j \in 1..(2 * n) |->
            Inline1Try(t, i, n - ((j - 1) \div 2), j % 2 = 1)])

\* RE_HIT_INLINE_2 = KIND \s* NUM_G, tried at start index i
Inline2Try(t, i, x) ==
    LET e == KindAltEnd(t, i, x)
        a == SkipIn(t, e, WhiteSpace)
        n == Min(6, NumRunLen(t, a))
        b == SkipIn(t, a + n, WhiteSpace)
        u == UnitEnd(t, b)
    IN IF e = 0 \/ n = 0 THEN NoHit
       ELSE Hit(SubSeq(t, a, a + n - 1), SubSeq(t, i, e - 1), IF u > 0 THEN u ELSE b)

RE_HIT_INLINE_2_At(t, i) == FirstOk([x \in 1..NKindAlts |-> Inline2Try(t, i, x)])

\* pattern.finditer(line): successive non-overlapping leftmost matches
RECURSIVE FindIter1(_, _)
FindIter1(t, pos) ==
    LET m == FirstOk([i \in 1..(Len(t) - pos + 1) |-> RE_HIT_INLINE_1_At(t, pos + i - 1)])
    IN IF m.ok THEN <<m>> \o FindIter1(t, m.end) ELSE <<>>

RECURSIVE FindIter2(_, _)
FindIter2(t, pos) ==
    LET m == FirstOk([i \in 1..(Len(t) - pos + 1) |-> RE_HIT_INLINE_2_At(t, pos + i - 1)])
    IN IF m.ok THEN <<m>> \o FindIter2(t, m.end) ELSE <<>>

\* the loop body: a match whose number does not parse is dropped
RECURSIVE HitsOf(_)
HitsOf(ms) ==
    IF ms = <<>> THEN <<>>
    ELSE LET gi == _num_to_int(Head(ms).num)
         IN (IF gi.ok THEN <<[game |-> gi.v, kind |-> _kind_to_std(Head(ms).kind)]>> ELSE <<>>)
            \o HitsOf(Tail(ms))

_scan_line_for_hits(line) == HitsOf(FindIter1(line, 1)) \o HitsOf(FindIter2(line, 1))

\* ------------------------------------------------------- structured sources
\* A record is [dai, game, kind]; a parse result is [records, cands].
\* A payload is one of
\*   [fmt |-> "html", els |-> <<element>>]  markup as BeautifulSoup sees it,
\*        element = [tag |-> "tr" | "h1" | "p", cells |-> <<text>>]
\*   [fmt |-> "text", text |-> chars]       plain text, neither markup nor JSON
\*   [fmt |-> "json", data |-> node]        text that json.loads accepts,
\*        node = [t |-> "dict", items |-> <<[key, val]>>] | [t |-> "list", items |-> <<node>>]
\*             | [t |-> "str", s |-> chars] | [t |-> "num", s |-> chars of str(n)]
Rec(d, g, k) == [dai |-> d, game |-> g, kind |-> k]
Parsed(rs, cs) == [records |-> rs, cands |-> cs]

RECURSIVE Join(_)
Join(ts) ==
    IF ts = <<>> THEN <<>>
    ELSE IF Len(ts) = 1 THEN ts[1] ELSE ts[1] \o <<" ">> \o Join(Tail(ts))

RECURSIVE Flatten(_)
Flatten(ss) == IF ss = <<>> THEN <<>> ELSE Head(ss) \o Flatten(Tail(ss))

Truthy(cs) == SelectSeq(cs, LAMBDA c : c # None)

\* one text unit (table row, line, JSON string leaf): its identifier is a
\* candidate and is attached to every hit of the unit
UnitOf(row_dai, hits) ==
    Parsed([i \in 1..Len(hits) |-> Rec(_to_dai_str(row_dai), hits[i].game, hits[i].kind)],
           IF row_dai # None THEN <<row_dai>> ELSE <<>>)

UnitParse(line) == UnitOf(_extract_dai_from_text(line), _scan_line_for_hits(line))

\* records.extend / dai_cands.extend over a sequence of parse results
Merge(ps) ==
    Parsed(Flatten([i \in 1..Len(ps) |-> ps[i].records]),
           Flatten([i \in 1..Len(ps) |-> ps[i].cands]))

UnitsParse(lines) == Merge([i \in 1..Len(lines) |-> UnitParse(lines[i])])

\* re.split(r"[ 　]*[\r\n]+[ 　]*|(?<=G)\s", full): full is
\* normalised, so only a blank right after "G" splits
RECURSIVE SplitAfterG(_, _)
SplitAfterG(t, cur) ==
    IF t = <<>> THEN <<cur>>
    ELSE IF Head(t) \in WhiteSpace /\ cur # <<>> /\ cur[Len(cur)] = "G"
         THEN <<cur>> \o SplitAfterG(Tail(t), <<>>)
         ELSE SplitAfterG(Tail(t), Append(cur, Head(t)))

NormLines(ls) ==
    SelectSeq([i \in 1..Len(ls) |-> _normalize_text(ls[i])], LAMBDA l : l # <<>>)

\* soup.get_text(" ", strip=True) of the element sequence
ElText(el) == Join(SelectSeq([i \in 1..Len(el.cells) |-> LStrip(RStrip(el.cells[i]))],
                             LAMBDA c : c # <<>>))
SoupText(els) == Join(SelectSeq([i \in 1..Len(els) |-> ElText(els[i])], LAMBDA c : c # <<>>))

\* " ".join of the normalised cells of a table row
RowText(el) == Join([i \in 1..Len(el.cells) |-> _normalize_text(el.cells[i])])

\* page_dai = _extract_dai_from_text(soup.get_text(" ", strip=True))
HtmlPageDai(els) == _extract_dai_from_text(SoupText(els))

\* the loop over soup.select("table tr")
HtmlTable(els) ==
    LET trs == SelectSeq(els, LAMBDA e : e.tag = "tr" /\ e.cells # <<>>)
    IN UnitsParse([i \in 1..Len(trs) |-> RowText(trs[i])])

\* if not records: the line-wise scan of the full text
HtmlLines(els, tbl) ==
    IF tbl.records = <<>>
    THEN UnitsParse(NormLines(SplitAfterG(_normalize_text(SoupText(els)), <<>>)))
    ELSE Parsed(<<>>, <<>>)

\* hd = soup.select_one("h1, ..."): the first heading's identifier
HtmlHead(els) ==
    LET h1s == SelectSeq(els, LAMBDA e : e.tag = "h1")
    IN IF h1s = <<>> THEN None ELSE _extract_dai_from_text(ElText(h1s[1]))

HtmlResult(page_dai, tbl, lns, hd) ==
    Parsed(tbl.records \o lns.records,
           Truthy(<<page_dai>> \o tbl.cands \o lns.cands \o <<hd>>))

HtmlAfterTable(els, tbl) ==
    HtmlResult(HtmlPageDai(els), tbl, HtmlLines(els, tbl), HtmlHead(els))

HtmlParseEls(els) == HtmlAfterTable(els, HtmlTable(els))

\* the markup view of a payload: text without tags is one text node.
\* (JSON payloads are only ever delivered with a JSON content type here.)
SoupOf(body) ==
    IF body.fmt = "html" THEN body.els
    ELSE <<[tag |-> "p", cells |-> <<body.text>>]>>

_parse_hit_records_from_html(body) == HtmlParseEls(SoupOf(body))

\* walk(obj) of _parse_hit_records_from_json_text
GameKeys == <<"g", "game", "spin", "games", "games_count", "total_games">>
KindKeys == <<"k", "kind", "type", "bonus", "label", "name">>
\* "daiban", "daibangou" stand for the two Japanese keys; the last alias of the
\* source, "machineNo", can never equal a lower-cased key and is left out
DaiKeys ==
    <<"dai", "no", "number", "machine", "daiban", "daibangou", "machine_no", "unit_no",
      "table_no", "unit">>

\* next((obj[keys[k]] for k in aliases if k in keys), None); None is <<>>
RECURSIVE FirstKey(_, _)
FirstKey(items, aliases) ==
    IF aliases = <<>> THEN None
    ELSE LET hit == SelectSeq(items, LAMBDA it : it.key = Head(aliases))
         IN IF hit # <<>> THEN <<hit[Len(hit)].val>> ELSE FirstKey(items, Tail(aliases))

\* str(v) of a scalar JSON value
StrOf(v) == v.s

DictParse(items) ==
    LET gkey == FirstKey(items, GameKeys)
        kkey == FirstKey(items, KindKeys)
        dkey == FirstKey(items, DaiKeys)
        d == IF dkey # None THEN _to_dai_str(StrOf(dkey[1])) ELSE None
        gi == IF gkey # None THEN _num_to_int(StrOf(gkey[1])) ELSE NoInt
    IN Parsed(IF gkey # None /\ kkey # None /\ gi.ok
              THEN <<Rec(d, gi.v, _kind_to_std(StrOf(kkey[1])))>> ELSE <<>>,
              IF d # None THEN <<d>> ELSE <<>>)

RECURSIVE Walk(_)
Walk(obj) ==
    IF obj.t = "dict"
    THEN Merge(<<DictParse(obj.items)>>
               \o [i \in 1..Len(obj.items) |-> Walk(obj.items[i].val)])
    ELSE IF obj.t = "list"
    THEN Merge([i \in 1..Len(obj.items) |-> Walk(obj.items[i])])
    ELSE IF obj.t = "str" THEN UnitParse(_normalize_text(obj.s))
    ELSE Parsed(<<>>, <<>>)

\* json.loads fails on plain text; re.split(r"[\r\n]+", .) of the normalised
\* payload is the payload itself (no newline survives normalisation)
JsonTextNoFallback(body) ==
    IF body.fmt = "json" THEN Walk(body.data) ELSE Parsed(<<>>, <<>>)

_parse_hit_records_from_json_text(body) ==
    IF body.fmt = "json" THEN Walk(body.data)
    ELSE UnitsParse(<<_normalize_text(body.text)>>)

\* ------------------------------------------------------------- resolution
\* vals of _freq_pick: the normalised valid candidates, in order
FreqVals(cands) ==
    LET ds == [i \in 1..Len(cands) |-> _to_dai_str(cands[i])]
    IN SelectSeq(ds, LAMBDA d : d # None /\ 2 <= Len(d) /\ Len(d) <= 5)

Count(vals, x) == Cardinality({i \in 1..Len(vals) : vals[i] = x})

\* Counter(vals).most_common(1)[0][0]: the first key, in insertion order,
\* whose count no key exceeds
RECURSIVE MostCommon(_, _, _)
MostCommon(vals, i, best) ==
    IF i > Len(vals) THEN best
    ELSE MostCommon(vals, i + 1,
                    IF Count(vals, vals[i]) > Count(vals, best) THEN vals[i] ELSE best)

\* a plausible slip: ties go to the key met last
RECURSIVE MostCommonLast(_, _, _)
MostCommonLast(vals, i, best) ==
    IF i > Len(vals) THEN best
    ELSE MostCommonLast(vals, i + 1,
                        IF Count(vals, vals[i]) >= Count(vals, best) THEN vals[i] ELSE best)

FreqPickLastTie(cands) ==
    LET vals == FreqVals(cands)
    IN IF vals = <<>> THEN None ELSE MostCommonLast(vals, 2, vals[1])

_freq_pick(cands) ==
    LET vals == FreqVals(cands)
    IN IF vals = <<>> THEN None ELSE MostCommon(vals, 2, vals[1])

\* a plausible slip: the loop leaves after the first record it fills
ResolveFirstOnly(records, cands) ==
    LET absent == {i \in 1..Len(records) : records[i].dai = None}
    IN [i \in 1..Len(records) |->
          IF i \in absent /\ \A j \in absent : i <= j
          THEN [records[i] EXCEPT !.dai = _freq_pick(cands)] ELSE records[i]]

\* a plausible slip: the fallback is written to every record
ResolveOverwrite(records, cands) ==
    [i \in 1..Len(records) |-> [records[i] EXCEPT !.dai = _freq_pick(cands)]]

\* a plausible slip: the loop stops one record short
ResolveButLast(records, cands) ==
    [i \in 1..Len(records) |->
        IF records[i].dai = None /\ i < Len(records)
        THEN [records[i] EXCEPT !.dai = _freq_pick(cands)] ELSE records[i]]

\* fallback = _freq_pick(dai_cands); for r in records: if not r.get("dai"): ...
Resolve(records, cands) ==
    [i \in 1..Len(records) |->
        IF records[i].dai = None
        THEN [records[i] EXCEPT !.dai = _freq_pick(cands)] ELSE records[i]]

\* _extract_dai_from_url on the abstract URL [cd_dai, json_suffix]: the value
\* of the query parameter cd_dai ([0-9]{2,5}), None when the URL has none
_extract_dai_from_url(url) == url.cd_dai

IsJson(sample) == sample.ct = "json" \/ sample.url.json_suffix

\* the loop body over the ring's samples (href_hint is None at every call)
WithUrlCand(durl, p) ==
    Parsed(p.records, (IF durl # None THEN <<durl>> ELSE <<>>) \o p.cands)

SampleParse(sample) ==
    WithUrlCand(_extract_dai_from_url(sample.url),
                IF IsJson(sample) THEN _parse_hit_records_from_json_text(sample.body)
                ELSE _parse_hit_records_from_html(sample.body))

\* records and dai_cands of _parse_using_ctx_and_ring before resolution
Gathered(blobs, items) ==
    Merge([i \in 1..Len(blobs) |-> _parse_hit_records_from_html(blobs[i])]
          \o [i \in 1..Len(items) |-> SampleParse(items[i])])

ResolveParsed(g) == Resolve(g.records, g.cands)

_parse_using_ctx_and_ring(blobs, items) == ResolveParsed(Gathered(blobs, items))

\* the row _collect_from_v13 builds of a record (source_url and scraped_at,
\* which no record field feeds, are left out)
RowOf(r) ==
    [dai |-> _to_dai_str(r.dai), game |-> r.game,
     kind |-> IF r.kind = "BIG" THEN "BIG" ELSE "REG"]

\* -------------------------------------------------------------- the ring
\* deque(maxlen=capacity).append
RingAppendKeepOldest(b, cap, sample) ==
    IF Len(b) >= cap THEN b ELSE Append(b, sample)

RingAppend(b, cap, sample) ==
    IF cap = 0 THEN <<>>
    ELSE IF Len(b) >= cap THEN Append(Tail(b), sample) ELSE Append(b, sample)

\* items = list(self.buf)
RingListButNewest(b) == IF b = <<>> THEN <<>> ELSE SubSeq(b, 1, Len(b) - 1)

RingList(b) == b

\* self.buf.clear()
RingClearedKeep(b) == b

RingCleared(b) == <<>>

\* ------------------------------------------------------------------ state
VARIABLES
    text,       \* the argument of _extract_dai_from_text
    dai,        \* its result
    tpc,        \* "in": not yet applied, "out": applied
    capacity,   \* RespRing: maxlen of self.buf
    buf,        \* RespRing.buf, oldest first
    counter,    \* RespRing.counter
    disk,       \* the files written under RESP_DIR: [n, ext]
    snapshot,   \* the list the last snapshot_and_clear returned
    pushed,     \* history: the samples pushed since the last snapshot_and_clear
    consumed,   \* history: pushed, as it was at the last snapshot_and_clear
    seqnos,     \* history: for each sample of buf, the number of its push
    fate,       \* history: for the n-th push, [times: how many snapshots
                \* returned it, passed: a snapshot was taken since, evicted: a
                \* later push (or capacity 0) dropped it from buf]
    blobs,      \* what _gather_all_htmls returns for the loaded page
    raw,        \* records and dai_cands of the last extraction before resolution
    records,    \* what the last _parse_using_ctx_and_ring returned
    rows,       \* the rows _collect_from_v13 has built
    bpc,        \* "call": before the extraction, "parsed", "rows"
    per_card_limit, \* _drill_dai_links: [none, v], none for None
    ordered,        \* the link items, deep links first
    idx,            \* position in the running tier's loop
    visited_hrefs,
    visited_dais,
    out_records,
    dom_dai_list,
    probe_cands,    \* list(probe_cands), in the order the set is iterated
    cd_dai_list,
    pc,             \* position in _drill_dai_links
    ret,            \* where the running visit returns to
    ran,            \* history: the tiers among 3 and 4 that were entered
    t1_added,       \* history: tier 1 has added a record to out_records
    out_valid,      \* history: per record of out_records, whether its batch
                    \* gathered a valid candidate
    card_cand,      \* history: some batch of the card gathered a candidate
    trace           \* history: what the tiers did, in order: [tier, what, href,
                    \* dai, n], what: "enter", "probe", "visit"; n =
                    \* len(out_records) at that moment; tier 6 is the caller
VARIABLES
    all_rows,       \* main: the non-empty frames of rows, one per start URL
    hits_df,        \* main: the detail frame, rows [dai, game, kind]
    agg,            \* main: the summary, rows [dai, cells], cells by column name
    saved,          \* the output files written: "hits", "summary"
    fpc             \* main's position: "collect", "detail", "aggregate", and
                    \* the three ways main returns: "empty", "detail_only", "both"

VARIABLES
    hit_line,       \* a raw text
    hit_expect,     \* the (game, kind) pairs written in it, in order
    hit_norm,       \* _normalize_text(hit_line)
    hit_out,        \* _scan_line_for_hits(hit_norm)
    hit_parsed,     \* _parse_hit_records_from_json_text(hit_line)
    hpc             \* "in", "norm", "scanned", "parsed"
VARIABLES
    total,          \* _collect_from_v13: the number of cards to process
    card,           \* the index i of the card being processed, from 1
    cpc,            \* the position in the loop body: "click", "drill",
                    \* "drilled", "rows", "close"; "done": returned;
                    \* "aborted": left by an uncaught exception
    batches,        \* the extraction batches run so far for this card
    recs,           \* recs of this card
    results,        \* per finished card, the rows appended for it
    cards_run,      \* history: the cards whose cascade was started, in order
    born,           \* history: for the n-th push, the card being processed
    used            \* history: [n, by]: push n was consumed by a batch of card by

hitVars == <<hit_line, hit_expect, hit_norm, hit_out, hit_parsed, hpc>>
cardVars == <<total, card, cpc, batches, recs, results, cards_run, born, used>>
finalVars == <<all_rows, hits_df, agg, saved, fpc>>
textVars == <<text, dai, tpc>>
ringVars == <<capacity, buf, counter, disk, snapshot, pushed, consumed, seqnos, fate>>
batchVars == <<blobs, raw, records, rows, bpc>>
cascadeVars ==
    <<per_card_limit, ordered, idx, visited_hrefs, visited_dais, out_records,
      dom_dai_list, probe_cands, cd_dai_list, pc, ret, ran, t1_added, out_valid,
      card_cand, trace>>
vars == <<text, dai, tpc, capacity, buf, counter, disk, snapshot, pushed, consumed,
          seqnos, fate,
          blobs, raw, records, rows, bpc,
          per_card_limit, ordered, idx, visited_hrefs, visited_dais, out_records,
          dom_dai_list, probe_cands, cd_dai_list, pc, ret, ran, t1_added, out_valid,
      card_cand, trace, all_rows, hits_df, agg, saved, fpc,
          hit_line, hit_expect, hit_norm, hit_out, hit_parsed, hpc,
          total, card, cpc, batches, recs, results, cards_run, born, used>>

HitIdle ==
    /\ hit_line = <<>> /\ hit_expect = <<>> /\ hit_norm = <<>> /\ hit_out = <<>>
    /\ hit_parsed = Parsed(<<>>, <<>>) /\ hpc = "idle"
CardIdle ==
    /\ total = 0 /\ card = 0 /\ cpc = "idle" /\ batches = 0 /\ recs = <<>>
    /\ results = <<>> /\ cards_run = <<>> /\ born = <<>> /\ used = {}
FinalIdle ==
    all_rows = <<>> /\ hits_df = <<>> /\ agg = <<>> /\ saved = {} /\ fpc = "idle"
TextIdle == text = None /\ dai = None /\ tpc = "idle"
RingIdle ==
    /\ capacity = 0 /\ buf = <<>> /\ counter = 0 /\ disk = {}
    /\ snapshot = <<>> /\ pushed = <<>> /\ consumed = <<>>
    /\ seqnos = <<>> /\ fate = <<>>
BatchIdle ==
    /\ blobs = <<>> /\ raw = Parsed(<<>>, <<>>) /\ records = <<>> /\ rows = <<>>
    /\ bpc = "idle"
CascadeIdle ==
    /\ per_card_limit = [none |-> TRUE, v |-> 0] /\ ordered = <<>> /\ idx = 0
    /\ visited_hrefs = {} /\ visited_dais = {} /\ out_records = <<>>
    /\ dom_dai_list = <<>> /\ probe_cands = <<>> /\ cd_dai_list = <<>>
    /\ pc = "idle" /\ ret = "idle" /\ ran = {} /\ t1_added = FALSE /\ out_valid = <<>>
    /\ card_cand = FALSE /\ trace = <<>>

\* ------------------------------------------------ identifier-extraction runs
AsciiDigits == <<"1", "2", "3", "4", "5", "6", "7", "8", "9">>
FullDigits == <<"FW1", "FW2", "FW3", "FW4", "FW5", "FW6", "FW7", "FW8", "FW9">>
DigitRun(n, full) ==
    [i \in 1..n |-> IF full THEN FullDigits[((i - 1) % 9) + 1] ELSE AsciiDigits[((i - 1) % 9) + 1]]

TextPrefixes == {<<>>, <<"x">>, <<"x", " ">>}
TextLabels == {<<>>, <<"DAI", "BAN">>, <<"DAI", "BAN", "GOU">>, <<"N", "O", ".">>, <<"#">>}
TextSeps == {<<>>, <<":">>, <<"FWCOLON">>, <<" ">>}
TextSuffixes == {<<>>, <<"DAI">>, <<"G">>, <<" ", "B">>}

TextInputs ==
    {pre \o lab \o sep \o DigitRun(n, full) \o suf :
        pre \in TextPrefixes, lab \in TextLabels, sep \in TextSeps,
        n \in 0..MaxRun, full \in BOOLEAN, suf \in TextSuffixes}

TextInit ==
    /\ text \in TextInputs
    /\ dai = None
    /\ tpc = "in"
    /\ RingIdle /\ BatchIdle /\ CascadeIdle /\ FinalIdle /\ HitIdle /\ CardIdle

ExtractDai ==
    /\ tpc = "in"
    /\ dai' = _extract_dai_from_text(text)
    /\ tpc' = "out"
    /\ UNCHANGED <<hitVars, cardVars, finalVars, text, ringVars, batchVars, cascadeVars>>

TextNext == ExtractDai

SpecText == TextInit /\ [][TextNext]_vars

\* ------------------------------------------------------------- ring runs
\* RespRing.push: append, then best-effort persistence; a failed write is
\* swallowed after the counter was advanced
Ext(sample) == IF IsJson(sample) THEN ".json" ELSE ".html"

PushUnlessWriteFails(sample, written) ==
    /\ buf' = IF written THEN RingAppend(buf, capacity, sample) ELSE buf
    /\ counter' = counter + 1
    /\ disk' = IF written THEN disk \cup {[n |-> counter + 1, ext |-> Ext(sample)]} ELSE disk
    /\ pushed' = Append(pushed, sample)
    /\ seqnos' = RingAppend(seqnos, capacity, counter + 1)
    /\ fate' = [n \in 1..(counter + 1) |->
                    IF n = counter + 1
                    THEN [times |-> 0, passed |-> FALSE, evicted |-> capacity = 0]
                    ELSE [fate[n] EXCEPT
                             !.evicted = @ \/ (seqnos # <<>> /\ Len(seqnos) >= capacity
                                                /\ n = seqnos[1])]]
    /\ UNCHANGED <<capacity, snapshot, consumed>>

Push(sample, written) ==
    /\ buf' = RingAppend(buf, capacity, sample)
    /\ counter' = counter + 1
    /\ disk' = IF written THEN disk \cup {[n |-> counter + 1, ext |-> Ext(sample)]} ELSE disk
    /\ pushed' = Append(pushed, sample)
    /\ seqnos' = RingAppend(seqnos, capacity, counter + 1)
    /\ fate' = [n \in 1..(counter + 1) |->
                    IF n = counter + 1
                    THEN [times |-> 0, passed |-> FALSE, evicted |-> capacity = 0]
                    ELSE [fate[n] EXCEPT
                             !.evicted = @ \/ (seqnos # <<>> /\ Len(seqnos) >= capacity
                                                /\ n = seqnos[1])]]
    /\ UNCHANGED <<capacity, snapshot, consumed>>

\* RespRing.snapshot_and_clear: items = list(self.buf); self.buf.clear()
SnapshotAndClear ==
    /\ snapshot' = RingList(buf)
    /\ buf' = RingCleared(buf)
    /\ consumed' = pushed
    /\ pushed' = <<>>
    /\ seqnos' = RingCleared(seqnos)
    /\ fate' = [n \in 1..Len(fate) |->
                    [fate[n] EXCEPT
                        !.times = @ + Cardinality({i \in 1..Len(RingList(seqnos)) :
                                                     RingList(seqnos)[i] = n}),
                        !.passed = TRUE]]
    /\ UNCHANGED <<capacity, counter, disk>>

\* a URL: its cd_dai query value, whether it ends in ".json", and whether it
\* contains one of CONFIG["resp_url_keywords"]
Url(d, js) == [cd_dai |-> d, json_suffix |-> js, kw |-> FALSE]
Sample(u, b, c, n) == [url |-> u, body |-> b, ct |-> c, size |-> n]
TextBody(t) == [fmt |-> "text", text |-> t]

RingSamples ==
    {Sample(Url(None, FALSE), TextBody(<<"x">>), "html", 1),
     Sample(Url(<<"1", "2">>, TRUE), TextBody(<<"y">>), "json", 1)}

RingInit ==
    /\ capacity \in 0..MaxCap
    /\ buf = <<>> /\ counter = 0 /\ disk = {}
    /\ snapshot = <<>> /\ pushed = <<>> /\ consumed = <<>>
    /\ seqnos = <<>> /\ fate = <<>>
    /\ TextIdle /\ BatchIdle /\ CascadeIdle /\ FinalIdle /\ HitIdle /\ CardIdle

RingPush ==
    /\ counter < MaxPush
    /\ \E sample \in RingSamples, written \in BOOLEAN : Push(sample, written)
    /\ UNCHANGED <<hitVars, cardVars, finalVars, textVars, batchVars, cascadeVars>>

RingSnapshot ==
    /\ SnapshotAndClear
    /\ UNCHANGED <<hitVars, cardVars, finalVars, textVars, batchVars, cascadeVars>>

RingNext == RingPush \/ RingSnapshot

SpecRing == RingInit /\ [][RingNext]_vars

\* the last n elements of a sequence
LastN(q, n) == IF Len(q) <= n THEN q ELSE SubSeq(q, Len(q) - n + 1, Len(q))

\* C2: the buffer never holds more than capacity samples, and it holds
\* exactly the last capacity samples pushed since the last snapshot, in
\* arrival order (all of them while fewer than capacity were pushed).
C2_RingKeepsLast == Len(buf) <= capacity /\ buf = LastN(pushed, capacity)

\* C2 witness: more samples than the capacity were pushed without a snapshot
C2_Overflowed ==
    capacity >= 1 /\ Len(pushed) > capacity /\ Len(buf) = capacity /\ buf[1] # buf[Len(buf)]

\* C3: snapshot_and_clear returns the buffered samples in arrival order (the
\* last capacity samples pushed since the previous snapshot, none from before
\* it) and leaves the buffer empty until the next push.
C3_SnapshotDrains ==
    /\ snapshot = LastN(consumed, capacity)
    /\ pushed = <<>> => buf = <<>>

\* C3 witness: a second snapshot, taken after pushes that followed a first
C3_SecondSnapshot ==
    /\ snapshot # <<>> /\ pushed = <<>> /\ buf = <<>>
    /\ counter > Len(consumed)

\* ------------------------------------------------------------ batch runs
\* on_response of attach_global_response_listener: the admission filter.
\* A response is [url, ct, size, body, kw]; kw: its URL holds a configured
\* keyword; ct names the class of its content type.
Textual(ct) == ct \in {"json", "html", "xml", "csv", "javascript", "text", "plain"}
AdmittedNoCeiling(resp) ==
    /\ resp.url.kw \/ Textual(resp.ct)
    /\ resp.size > 0

Admitted(resp) ==
    /\ resp.url.kw \/ Textual(resp.ct)
    /\ resp.size > 0 /\ resp.size <= RespMaxBytes

Response(u, c, n, b, k) == [url |-> [u EXCEPT !.kw = k], ct |-> c, size |-> n, body |-> b]
SampleOf(resp) == Sample(resp.url, resp.body, resp.ct, resp.size)

\* resp.body() may raise; then, and for a response the filter rejects, nothing
\* is pushed
OnResponseOf(resp, bodyRaises, written) ==
    IF Admitted(resp) /\ ~bodyRaises
    THEN Push(SampleOf(resp), written)
    ELSE UNCHANGED ringVars

\* page and payload texts
T123Big45 == <<"1", "2", "3", "DAI", " ", "B", "I", "G", " ", "4", "5", "G">>
TBig45 == <<"B", "I", "G", " ", "4", "5", "G">>
T999Reg12 == <<"9", "9", "9", "DAI", " ", "R", "E", "G", " ", "1", "2", "G">>
TLabel77 == <<"DAI", "BAN", ":", "7", "7">>
TNo77 == <<"N", "o", ".", "7", "7">>
TReg12 == <<"R", "E", "G", " ", "1", "2", "G">>

El(tag, cells) == [tag |-> tag, cells |-> cells]
BatchEls ==
    {El("tr", <<T123Big45>>), El("tr", <<TBig45>>), El("tr", <<T999Reg12>>),
     El("h1", <<TLabel77>>)}

RECURSIVE SeqsUpTo(_, _)
SeqsUpTo(S, n) ==
    IF n = 0 THEN {<<>>}
    ELSE LET shorter == SeqsUpTo(S, n - 1)
         IN shorter \cup {Append(q, x) : q \in shorter, x \in S}

HtmlBody(els) == [fmt |-> "html", els |-> els]
HtmlBodies == {HtmlBody(els) : els \in SeqsUpTo(BatchEls, MaxEls)}

JNum(cs) == [t |-> "num", s |-> cs]
JStr(cs) == [t |-> "str", s |-> cs]
JDict(items) == [t |-> "dict", items |-> items]
JList(items) == [t |-> "list", items |-> items]
KV(k, v) == [key |-> k, val |-> v]
JsonBody(d) == [fmt |-> "json", data |-> d]

\* {"g": 45, "k": "BIG", "no": 123}
Json1 == JDict(<<KV("g", JNum(<<"4", "5">>)), KV("k", JStr(<<"B", "I", "G">>)),
                 KV("no", JNum(<<"1", "2", "3">>))>>)
\* {"game": -5, "kind": "REG"}
Json2 == JDict(<<KV("game", JNum(<<"-", "5">>)), KV("kind", JStr(<<"R", "E", "G">>))>>)
\* {"g": "1,234", "k": "RB"}
Json3 == JDict(<<KV("g", JStr(<<"1", ",", "2", "3", "4">>)), KV("k", JStr(<<"R", "B">>))>>)
\* [{"unit": "No.77"}, "REG 12G"]
Json4 == JList(<<JDict(<<KV("unit", JStr(TNo77))>>), JStr(TReg12)>>)
\* {"g": 1.5, "k": "BIG", "dai": 1234567}
Json5 == JDict(<<KV("g", JNum(<<"1", ".", "5">>)), KV("k", JStr(<<"B", "I", "G">>)),
                 KV("dai", JNum(<<"1", "2", "3", "4", "5", "6", "7">>))>>)

BatchResponses ==
    {Response(Url(<<"1", "2", "3">>, FALSE), "json", 40, JsonBody(Json1), TRUE),
     Response(Url(None, TRUE), "plain", 30, JsonBody(Json2), FALSE),
     Response(Url(None, FALSE), "json", 30, JsonBody(Json3), TRUE),
     Response(Url(<<"7", "7">>, FALSE), "json", 30, JsonBody(Json4), FALSE),
     Response(Url(None, FALSE), "json", 50, JsonBody(Json5), FALSE),
     Response(Url(<<"9", "9", "9">>, FALSE), "html", 20, TextBody(T999Reg12), TRUE),
     Response(Url(None, FALSE), "json", 10, TextBody(TBig45), TRUE),
     Response(Url(None, FALSE), "image", 20, TextBody(TBig45), FALSE),
     Response(Url(None, FALSE), "html", RespMaxBytes + 1, TextBody(TBig45), TRUE),
     Response(Url(None, FALSE), "html", RespMaxBytes, TextBody(TBig45), FALSE),
     Response(Url(None, FALSE), "plain", 0, TextBody(<<>>), TRUE)}

BatchInit ==
    /\ blobs \in {<<b>> : b \in HtmlBodies}
    /\ raw = Parsed(<<>>, <<>>) /\ records = <<>> /\ rows = <<>>
    /\ bpc = "call"
    /\ capacity = MaxCap
    /\ buf = <<>> /\ counter = 0 /\ disk = {}
    /\ snapshot = <<>> /\ pushed = <<>> /\ consumed = <<>>
    /\ seqnos = <<>> /\ fate = <<>>
    /\ TextIdle /\ CascadeIdle /\ FinalIdle /\ HitIdle /\ CardIdle

\* a response arrives while the page settles, before the extraction (its
\* file is written: a failed write changes nothing the extraction reads)
BatchOnResponse ==
    /\ bpc = "call"
    /\ counter < MaxResp
    /\ \E resp \in BatchResponses, bodyRaises \in BOOLEAN :
          OnResponseOf(resp, bodyRaises, TRUE)
    /\ UNCHANGED <<hitVars, cardVars, finalVars, textVars, batchVars, cascadeVars>>

\* _visit_and_parse_current: _parse_using_ctx_and_ring on the loaded page
BatchParse ==
    /\ bpc = "call"
    /\ SnapshotAndClear
    /\ raw' = Gathered(blobs, buf)
    /\ records' = _parse_using_ctx_and_ring(blobs, buf)
    /\ bpc' = "parsed"
    /\ UNCHANGED <<hitVars, cardVars, finalVars, textVars, blobs, rows, cascadeVars>>

\* the loop of _collect_from_v13 that turns the records into rows
BatchCollect ==
    /\ bpc = "parsed"
    /\ rows' = rows \o [i \in 1..Len(records) |-> RowOf(records[i])]
    /\ bpc' = "rows"
    /\ UNCHANGED <<hitVars, cardVars, finalVars, textVars, ringVars, blobs, raw, records, cascadeVars>>

BatchNext == BatchOnResponse \/ BatchParse \/ BatchCollect

SpecBatch == BatchInit /\ [][BatchNext]_vars

Range(q) == {q[i] : i \in 1..Len(q)}
FirstIndex(q, x) == CHOOSE i \in 1..Len(q) : q[i] = x /\ \A j \in 1..(i - 1) : q[j] # x

\* the candidate that occurs most often, the one met first among equals
MostFrequentFirst(cands) ==
    IF cands = <<>> THEN None
    ELSE CHOOSE c \in Range(cands) :
            \A o \in Range(cands) \ {c} :
                \/ Count(cands, c) > Count(cands, o)
                \/ Count(cands, c) = Count(cands, o)
                   /\ FirstIndex(cands, c) < FirstIndex(cands, o)

Extracted == bpc \in {"parsed", "rows"}

\* C4: in one extraction batch every record lacking an identifier gets the
\* identifier that occurs most often among the batch's candidates, the one met
\* first on a tie, and stays without one when the batch has no candidate.
C4_MostFrequentFirst ==
    Extracted =>
        /\ Len(records) = Len(raw.records)
        /\ \A i \in 1..Len(records) :
              raw.records[i].dai = None => records[i].dai = MostFrequentFirst(raw.cands)

\* C4 witness: a record without identifier resolved on a tie between two
\* candidates
C4_TieResolved ==
    /\ Extracted
    /\ \E i \in 1..Len(records) : raw.records[i].dai = None /\ records[i].dai # None
    /\ \E c \in Range(raw.cands), o \in Range(raw.cands) :
          /\ c # o /\ Count(raw.cands, c) = Count(raw.cands, o)
          /\ \A x \in Range(raw.cands) : Count(raw.cands, x) <= Count(raw.cands, c)

\* C5: resolving the resolved records again with the same candidates changes
\* no record.
C5_ResolveIdempotent == Extracted => Resolve(records, raw.cands) = records

\* C5 witness: resolution filled the identifier of two records
C5_TwoFilled ==
    /\ Extracted
    /\ \E i \in 1..Len(records), j \in 1..Len(records) :
          /\ i # j /\ raw.records[i].dai = None /\ raw.records[j].dai = None
          /\ records[i].dai # None /\ records[j].dai # None

\* C6: resolution fills absent identifiers only: a record that carries an
\* identifier keeps it, and every record keeps its game count and kind, in the
\* resolved records and in the rows built from them.
C6_OnlyAbsentFilled ==
    /\ Extracted =>
          /\ Len(records) = Len(raw.records)
          /\ \A i \in 1..Len(records) :
                /\ raw.records[i].dai # None => records[i].dai = raw.records[i].dai
                /\ records[i].game = raw.records[i].game
                /\ records[i].kind = raw.records[i].kind
    /\ bpc = "rows" =>
          /\ Len(rows) = Len(raw.records)
          /\ \A i \in 1..Len(rows) :
                /\ raw.records[i].dai # None => rows[i].dai = raw.records[i].dai
                /\ rows[i].game = raw.records[i].game
                /\ rows[i].kind = raw.records[i].kind

\* C6 witness: rows of a batch in which one record carried an identifier and
\* another was given a different one by resolution
C6_MixedRows ==
    /\ bpc = "rows"
    /\ \E i \in 1..Len(rows), j \in 1..Len(rows) :
          /\ raw.records[i].dai # None /\ raw.records[j].dai = None
          /\ rows[j].dai # None /\ rows[j].dai # rows[i].dai

\* C7: every row handed to the aggregator has gameCount >= 0 and kind in
\* {BIG, REG}.
C7_RowsWellFormed ==
    \A i \in 1..Len(rows) : rows[i].game >= 0 /\ rows[i].kind \in {"BIG", "REG"}

\* ---------------------------------------------------------------- C9
\* the labelled run of the specification's examples: "台番:" and n digits
LabelledRun(n) == <<"DAI", "BAN", ":">> \o DigitRun(n, FALSE)

\* C9: identifier extraction accepts a digit token only when the whole digit
\* run is 2 to 5 digits long: a labelled run of n digits yields the run when
\* 2 <= n <= 5 and no identifier otherwise (never a prefix or substring).
C9_WholeRunOnly ==
    tpc = "out" =>
        \A n \in 0..MaxRun :
            text = LabelledRun(n) =>
                dai = (IF 2 <= n /\ n <= 5 THEN DigitRun(n, FALSE) ELSE None)

\* ------------------------------------------------------------ cascade runs
\* _drill_dai_links for one card. The browsing layer's answers (the link
\* items, the harvested lists, the page a visit finds, whether a click or a
\* navigation succeeds) are chosen from small sets.
MaxLinks == 2
MaxLimit == 1
RespRingCapacity == 2200

HrefPlain == "detail.php?id=1"
HrefV06 == "nc-v06-001.php?cd_dai=12"
\* (it.get("h") or "").find("nc-v06-") >= 0 or (...).find("cd_dai=") >= 0
IsV06(h) == h = HrefV06

\* a link item: href and data-dai (its onclick is empty)
Item(h, d) == [h |-> h, d |-> d]
LinkItems ==
    {Item(HrefPlain, <<>>), Item(HrefV06, <<"1", "2">>), Item("", <<"3", "4">>)}

\* ordered = v06_links + the items not in v06_links
Ordered(link_items) ==
    SelectSeq(link_items, LAMBDA it : IsV06(it.h))
        \o SelectSeq(link_items, LAMBDA it : ~IsV06(it.h))

\* dai_hint = _to_dai_str(data_dai) or (... if RE_ONCLICK_DAI.search(onclick) else None)
DaiHint(it) == _to_dai_str(it.d)

\* limit = len(xs) if per_card_limit is None else min(len(xs), int(per_card_limit))
Limit(limit, n) == IF limit.none THEN n ELSE Min(n, limit.v)

\* the guards of tiers 3 and 4
Tier3EnteredDomOnly(dom, out) == dom = <<>>

Tier3EnteredEither(dom, out) == dom = <<>> \/ out = <<>>

Tier3Entered(dom, out) == dom = <<>> /\ out = <<>>

Tier4Entered(limit, out) == limit.none \/ out = <<>>

\* what _gather_all_htmls finds on the page a visit parses
PageEmpty == <<HtmlBody(<<>>)>>
PageHit == <<HtmlBody(<<El("tr", <<TBig45>>)>>)>>
PageDaiHit == <<HtmlBody(<<El("tr", <<T123Big45>>)>>)>>
Pages == {PageEmpty, PageHit, PageDaiHit}

\* results of _harvest_dai_candidates_from_dom and
\* _extract_cd_dai_candidates_from_blobs: sorted, without repeats
DomLists == {<<>>, << <<"1", "2">> >>}
CdLists == {<<>>, << <<"1", "2">> >>}

CascadeResponses ==
    {Response(Url(<<"7", "7">>, FALSE), "json", 30, JsonBody(Json4), FALSE)}

\* list(s) of a set s: any order
Perms(S) == {q \in [1..Cardinality(S) -> S] : \A x \in S : \E i \in DOMAIN q : q[i] = x}

\* _freq_pick's notion of a valid candidate, for the history variable
HasValidCand(cands) ==
    \E i \in 1..Len(cands) :
        _to_dai_str(cands[i]) # None /\ Len(_to_dai_str(cands[i])) \in 2..5

CascadeInit ==
    /\ per_card_limit \in
          {[none |-> TRUE, v |-> 0]} \cup {[none |-> FALSE, v |-> n] : n \in 0..MaxLimit}
    /\ ordered \in {Ordered(ls) : ls \in SeqsUpTo(LinkItems, MaxLinks)}
    /\ idx = 1
    /\ visited_hrefs = {} /\ visited_dais = {} /\ out_records = <<>>
    /\ dom_dai_list = <<>> /\ probe_cands = <<>> /\ cd_dai_list = <<>>
    /\ pc = "t1" /\ ret = "t1" /\ ran = {} /\ t1_added = FALSE /\ out_valid = <<>>
    /\ card_cand = FALSE /\ trace = <<>>
    /\ capacity = RespRingCapacity
    /\ buf = <<>> /\ counter = 0 /\ disk = {}
    /\ snapshot = <<>> /\ pushed = <<>> /\ consumed = <<>>
    /\ seqnos = <<>> /\ fate = <<>>
    /\ TextIdle /\ BatchIdle /\ FinalIdle /\ HitIdle /\ CardIdle

\* an entry of the history variable trace
Entry(tier, what, href, d, n) ==
    [tier |-> tier, what |-> what, href |-> href, dai |-> d, n |-> n]

\* the order of the blocks 1-a), 2), 3), 4), 5) of _drill_dai_links
AfterLooping(p) ==
    CASE p = "t1" -> "t2" [] p = "t2" -> "t3" [] p = "t3" -> "t4" [] p = "t4" -> "t3"

After(p) ==
    CASE p = "t1" -> "t2" [] p = "t2" -> "t3" [] p = "t3" -> "t4" [] p = "t4" -> "t5"

\* the guard of tier 5, and of the caller's own fallback
Tier5EnteredAlways(out) == TRUE

Tier5Entered(out) == out = <<>>

\* 1-a) one turn of the loop over ordered[:limit]. _visit_href clicks the
\* link, then any link; when both clicks fail and the item has a dai hint it
\* calls _click_dai_by_text_ctx, a name the module never defines: NameError,
\* which nothing up to main catches. An item without href and with a hint
\* calls it at once.
T1Step ==
    /\ pc = "t1"
    /\ idx <= Limit(per_card_limit, Len(ordered))
    /\ idx' = idx + 1
    /\ LET href == ordered[idx].h
           dai_hint == DaiHint(ordered[idx])
       IN IF (href # "" /\ href \in visited_hrefs)
             \/ (dai_hint # None /\ dai_hint \in visited_dais)
          THEN UNCHANGED <<pc, ret, visited_hrefs, trace>>
          ELSE IF href # ""
          THEN /\ visited_hrefs' = visited_hrefs \cup {href}
               /\ \E clicked \in BOOLEAN :
                     IF ~clicked /\ dai_hint # None
                     THEN pc' = "aborted" /\ ret' = ret /\ trace' = trace
                     ELSE /\ pc' = "visit" /\ ret' = "t1"
                          /\ trace' = Append(trace, Entry(1, "visit", href, dai_hint,
                                                          Len(out_records)))
          ELSE /\ pc' = IF dai_hint # None THEN "aborted" ELSE pc
               /\ UNCHANGED <<ret, visited_hrefs, trace>>
    /\ UNCHANGED <<hitVars, cardVars, finalVars, textVars, ringVars, batchVars, per_card_limit, ordered, visited_dais,
                   out_records, dom_dai_list, probe_cands, cd_dai_list, ran, t1_added,
                   out_valid, card_cand>>

\* 2) dom_dai_list = _harvest_dai_candidates_from_dom(page)
T1End ==
    /\ pc = "t1"
    /\ idx > Limit(per_card_limit, Len(ordered))
    /\ dom_dai_list' \in DomLists
    /\ pc' = After("t1") /\ idx' = 1
    /\ trace' = Append(trace, Entry(2, "enter", "", None, Len(out_records)))
    /\ UNCHANGED <<hitVars, cardVars, finalVars, textVars, ringVars, batchVars, per_card_limit, ordered, visited_hrefs,
                   visited_dais, out_records, probe_cands, cd_dai_list, ret, ran,
                   t1_added, out_valid, card_cand>>

\* one turn of the loop over dom_dai_list[:limit]: a target both goto calls
\* fail to reach is skipped
T2Step ==
    /\ pc = "t2"
    /\ idx <= Limit(per_card_limit, Len(dom_dai_list))
    /\ idx' = idx + 1
    /\ IF dom_dai_list[idx] \in visited_dais
       THEN UNCHANGED <<pc, ret, visited_dais, trace>>
       ELSE \E reached \in BOOLEAN :
               IF reached
               THEN /\ visited_dais' = visited_dais \cup {dom_dai_list[idx]}
                    /\ pc' = "visit" /\ ret' = "t2"
                    /\ trace' = Append(trace, Entry(2, "visit", "", dom_dai_list[idx],
                                                    Len(out_records)))
               ELSE UNCHANGED <<pc, ret, visited_dais, trace>>
    /\ UNCHANGED <<hitVars, cardVars, finalVars, textVars, ringVars, batchVars, per_card_limit, ordered, visited_hrefs,
                   out_records, dom_dai_list, probe_cands, cd_dai_list, ran, t1_added,
                   out_valid, card_cand>>

T2End ==
    /\ pc = "t2"
    /\ idx > Limit(per_card_limit, Len(dom_dai_list))
    /\ pc' = After("t2")
    /\ UNCHANGED <<hitVars, cardVars, finalVars, textVars, ringVars, batchVars, per_card_limit, ordered, idx,
                   visited_hrefs, visited_dais, out_records, dom_dai_list, probe_cands,
                   cd_dai_list, ret, ran, t1_added, out_valid, card_cand, trace>>

\* 3) the probe, then _parse_using_ctx_and_ring on what it provoked
T3Enter ==
    /\ pc = "t3"
    /\ IF Tier3Entered(dom_dai_list, out_records)
       THEN /\ pc' = "visit" /\ ret' = "t3after" /\ ran' = ran \cup {3}
            /\ trace' = Append(trace, Entry(3, "probe", "", None, Len(out_records)))
       ELSE pc' = After("t3") /\ UNCHANGED <<ret, ran, trace>>
    /\ UNCHANGED <<hitVars, cardVars, finalVars, textVars, ringVars, batchVars, per_card_limit, ordered, idx,
                   visited_hrefs, visited_dais, out_records, dom_dai_list, probe_cands,
                   cd_dai_list, t1_added, out_valid, card_cand>>

\* if recs_after_probe: probe_cands from the records' identifiers, else from
\* the page's cd_dai candidates
T3After ==
    /\ pc = "t3after"
    /\ idx' = 1
    /\ IF records = <<>>
       THEN pc' = After("t3") /\ probe_cands' = <<>>
       ELSE /\ pc' = "t3loop"
            /\ LET ids == {_to_dai_str(records[i].dai) :
                              i \in {j \in 1..Len(records) : records[j].dai # None}}
               IN IF ids # {} THEN probe_cands' \in Perms(ids)
                  ELSE \E cds \in CdLists : probe_cands' \in Perms(Range(cds))
    /\ UNCHANGED <<hitVars, cardVars, finalVars, textVars, ringVars, batchVars, per_card_limit, ordered, visited_hrefs,
                   visited_dais, out_records, dom_dai_list, cd_dai_list, ret, ran,
                   t1_added, out_valid, card_cand, trace>>

\* one turn of the loop over list(probe_cands)[:limit]
T3Step ==
    /\ pc = "t3loop"
    /\ idx <= Limit(per_card_limit, Len(probe_cands))
    /\ idx' = idx + 1
    /\ IF probe_cands[idx] = None
       THEN UNCHANGED <<pc, ret, trace>>
       ELSE \E reached \in BOOLEAN :
               IF reached
               THEN /\ pc' = "visit" /\ ret' = "t3loop"
                    /\ trace' = Append(trace, Entry(3, "visit", "", probe_cands[idx],
                                                    Len(out_records)))
               ELSE UNCHANGED <<pc, ret, trace>>
    /\ UNCHANGED <<hitVars, cardVars, finalVars, textVars, ringVars, batchVars, per_card_limit, ordered, visited_hrefs,
                   visited_dais, out_records, dom_dai_list, probe_cands, cd_dai_list, ran,
                   t1_added, out_valid, card_cand>>

T3End ==
    /\ pc = "t3loop"
    /\ idx > Limit(per_card_limit, Len(probe_cands))
    /\ pc' = After("t3")
    /\ UNCHANGED <<hitVars, cardVars, finalVars, textVars, ringVars, batchVars, per_card_limit, ordered, idx,
                   visited_hrefs, visited_dais, out_records, dom_dai_list, probe_cands,
                   cd_dai_list, ret, ran, t1_added, out_valid, card_cand, trace>>

\* 4) cd_dai_list = _extract_cd_dai_candidates_from_blobs(page)
T4Enter ==
    /\ pc = "t4"
    /\ idx' = 1
    /\ IF Tier4Entered(per_card_limit, out_records)
       THEN /\ cd_dai_list' \in CdLists
            /\ pc' = "t4loop" /\ ran' = ran \cup {4}
            /\ trace' = Append(trace, Entry(4, "enter", "", None, Len(out_records)))
       ELSE pc' = After("t4") /\ UNCHANGED <<cd_dai_list, ran, trace>>
    /\ UNCHANGED <<hitVars, cardVars, finalVars, textVars, ringVars, batchVars, per_card_limit, ordered, visited_hrefs,
                   visited_dais, out_records, dom_dai_list, probe_cands, ret, t1_added,
                   out_valid, card_cand>>

\* one turn of the loop over cd_dai_list[:limit]
T4Step ==
    /\ pc = "t4loop"
    /\ idx <= Limit(per_card_limit, Len(cd_dai_list))
    /\ idx' = idx + 1
    /\ IF cd_dai_list[idx] \in visited_dais
       THEN UNCHANGED <<pc, ret, visited_dais, trace>>
       ELSE \E reached \in BOOLEAN :
               IF reached
               THEN /\ visited_dais' = visited_dais \cup {cd_dai_list[idx]}
                    /\ pc' = "visit" /\ ret' = "t4loop"
                    /\ trace' = Append(trace, Entry(4, "visit", "", cd_dai_list[idx],
                                                    Len(out_records)))
               ELSE UNCHANGED <<pc, ret, visited_dais, trace>>
    /\ UNCHANGED <<hitVars, cardVars, finalVars, textVars, ringVars, batchVars, per_card_limit, ordered, visited_hrefs,
                   out_records, dom_dai_list, probe_cands, cd_dai_list, ran, t1_added,
                   out_valid, card_cand>>

T4End ==
    /\ pc = "t4loop"
    /\ idx > Limit(per_card_limit, Len(cd_dai_list))
    /\ pc' = After("t4")
    /\ UNCHANGED <<hitVars, cardVars, finalVars, textVars, ringVars, batchVars, per_card_limit, ordered, idx,
                   visited_hrefs, visited_dais, out_records, dom_dai_list, probe_cands,
                   cd_dai_list, ret, ran, t1_added, out_valid, card_cand, trace>>

\* 5) if not out_records: parse the current page; return out_records
T5 ==
    /\ pc = "t5"
    /\ IF Tier5Entered(out_records)
       THEN /\ pc' = "visit" /\ ret' = "done"
            /\ trace' = Append(trace, Entry(5, "visit", "", None, Len(out_records)))
       ELSE pc' = "done" /\ ret' = ret /\ trace' = trace
    /\ UNCHANGED <<hitVars, cardVars, finalVars, textVars, ringVars, batchVars, per_card_limit, ordered, idx,
                   visited_hrefs, visited_dais, out_records, dom_dai_list, probe_cands,
                   cd_dai_list, ran, t1_added, out_valid, card_cand>>

\* _collect_from_v13: recs = _drill_dai_links(...); if not recs:
\* recs = _visit_and_parse_current(page, ring). out_records stands for recs.
Collect ==
    /\ pc = "done"
    /\ IF Tier5Entered(out_records)
       THEN /\ pc' = "visit" /\ ret' = "final"
            /\ trace' = Append(trace, Entry(6, "visit", "", None, Len(out_records)))
       ELSE pc' = "final" /\ ret' = ret /\ trace' = trace
    /\ UNCHANGED <<hitVars, cardVars, finalVars, textVars, ringVars, batchVars, per_card_limit, ordered, idx,
                   visited_hrefs, visited_dais, out_records, dom_dai_list, probe_cands,
                   cd_dai_list, ran, t1_added, out_valid, card_cand>>

\* _visit_and_parse_current (in tier 3, _parse_using_ctx_and_ring itself) on
\* the page now loaded, and out_records.extend(recs)
Visit ==
    /\ pc = "visit"
    /\ blobs' \in Pages
    /\ SnapshotAndClear
    /\ raw' = Gathered(blobs', buf)
    /\ records' = _parse_using_ctx_and_ring(blobs', buf)
    /\ out_records' = out_records \o records'
    /\ out_valid' = out_valid \o [i \in 1..Len(records') |-> HasValidCand(raw'.cands)]
    /\ t1_added' = (t1_added \/ (ret = "t1" /\ records' # <<>>))
    /\ card_cand' = (card_cand \/ raw'.cands # <<>>)
    /\ pc' = ret
    /\ UNCHANGED <<hitVars, cardVars, finalVars, textVars, rows, bpc, per_card_limit, ordered, idx, visited_hrefs,
                   visited_dais, dom_dai_list, probe_cands, cd_dai_list, ret, ran, trace>>

\* a response reaches the listener while the visited page settles (its file
\* is written: a failed write changes nothing the cascade reads)
OnResponse ==
    /\ pc = "visit"
    /\ counter < MaxResp
    /\ \E resp \in CascadeResponses, bodyRaises \in BOOLEAN :
          OnResponseOf(resp, bodyRaises, TRUE)
    /\ UNCHANGED <<hitVars, cardVars, finalVars, textVars, batchVars, cascadeVars>>

Next ==
    \/ T1Step \/ T1End \/ T2Step \/ T2End \/ T3Enter \/ T3After \/ T3Step \/ T3End
    \/ T4Enter \/ T4Step \/ T4End \/ T5 \/ Collect \/ Visit \/ OnResponse

Spec == CascadeInit /\ [][Next]_vars

\* C1 as stated: once tier 1 has added a record to the card's accumulator,
\* neither tier 3 nor tier 4 is entered, whatever the per-card limit.
C1_Tier1ShortCircuits == t1_added => ran = {}

\* C1, amended: once tier 1 has added a record, tier 3 is never entered, and
\* tier 4 is not entered when the per-card limit is a number (not None).
C1_Tier1ShortCircuitsLimited ==
    t1_added => 3 \notin ran /\ (~per_card_limit.none => 4 \notin ran)

\* C1 witness: a cascade with a numeric limit that returned after tier 1 had
\* added a record
C1_LimitedCardReturned == pc = "done" /\ t1_added /\ ~per_card_limit.none

\* C8 as stated: a record of the card lacks an identifier only if no batch of
\* the card's cascade gathered any candidate.
C8_AbsentOnlyWithoutCardCandidate ==
    (\E i \in 1..Len(out_records) : out_records[i].dai = None) => ~card_cand

\* C8, amended: a record of the card lacks an identifier only if the batch that
\* produced it gathered no valid (2 to 5 digit) candidate.
C8_AbsentOnlyWithoutBatchCandidate ==
    /\ Len(out_valid) = Len(out_records)
    /\ \A i \in 1..Len(out_records) : out_records[i].dai = None => ~out_valid[i]

\* C8 witness: a returned cascade holding a record without identifier and a
\* record of another batch that carries one and had a valid candidate
C8_MixedCard ==
    /\ pc = "done"
    /\ \E i \in 1..Len(out_records), j \in 1..Len(out_records) :
          out_records[i].dai = None /\ ~out_valid[i]
          /\ out_records[j].dai # None /\ out_valid[j]

\* C10: no failing click or navigation in tiers 1-4 aborts the card's cascade.
C10_NeverAborts == pc # "aborted"

\* the positions of trace that are detail visits of tiers 1-4
DetailVisits ==
    {i \in 1..Len(trace) : trace[i].what = "visit" /\ trace[i].tier \in 1..4}

\* C11: within one card's cascade no href is visited more than once and no
\* machine identifier is the target of more than one detail visit of tiers
\* 1-4, whether it was reached through a link carrying it as dai hint or
\* through its canonical URL.
C11_NoTargetTwice ==
    \A i, j \in DetailVisits :
        i < j =>
            /\ ~(trace[i].href # "" /\ trace[i].href = trace[j].href)
            /\ ~(trace[i].dai # None /\ trace[i].dai = trace[j].dai)

\* C12: under a finite per-card limit L the number of detail visits of
\* tiers 1-4 for one card never exceeds L.
C12_VisitsWithinLimit ==
    ~per_card_limit.none => Cardinality(DetailVisits) <= per_card_limit.v

\* the positions of trace where the given tier did the given thing
Entries(tier, what) ==
    {i \in 1..Len(trace) : trace[i].tier = tier /\ trace[i].what = what}

\* C13: the probe tier (tier 3) is entered only while the card's accumulator
\* holds zero records, that is, only if tiers 1 and 2 added nothing.
C13_ProbeOnlyWhenEmpty ==
    \A i \in Entries(3, "probe") : trace[i].n = 0

\* C13, its case: tier 1 made a visit that yielded nothing, and the probe ran
C13_ProbedAfterEmptyVisit ==
    \E i \in Entries(1, "visit"), j \in Entries(3, "probe") : i < j

\* C14 as stated: for one card the current page is extracted at most once
\* after tiers 1-4 (once when they left the accumulator empty, never
\* otherwise).
C14_CurrentPageOnce ==
    Cardinality(Entries(5, "visit") \cup Entries(6, "visit")) <= 1

\* C14, amended: tier 5 runs at most once and only on an empty accumulator;
\* the caller's extraction runs at most once, only after tier 5 and only on an
\* accumulator still empty; when the card is finished, an accumulator that
\* tiers 1-4 filled saw neither, an empty final set saw both, and whenever
\* tier 5 ran the final set is the result of the last extraction.
C14_CurrentPageOnceOrTwice ==
    /\ Cardinality(Entries(5, "visit")) <= 1
    /\ Cardinality(Entries(6, "visit")) <= 1
    /\ \A i \in Entries(5, "visit") \cup Entries(6, "visit") : trace[i].n = 0
    /\ \A j \in Entries(6, "visit") : \E i \in Entries(5, "visit") : i < j
    /\ pc = "final" =>
          /\ Entries(5, "visit") = {} => out_records # <<>>
          /\ Entries(5, "visit") # {} => out_records = records
          /\ out_records = <<>> => Entries(6, "visit") # {}

\* C14, its case: tier 5 found nothing, the caller's extraction found records
C14_SecondRunFound ==
    pc = "final" /\ Entries(6, "visit") # {} /\ out_records # <<>>

\* C15: the tiers act in the order 1, 2, 3, 4, 5 (then the caller): no entry
\* of trace is followed by an entry of an earlier tier, and tiers 2, 3, 4 and
\* 5 are each entered at most once.
C15_TiersInOrder ==
    /\ \A i, j \in 1..Len(trace) : i < j => trace[i].tier <= trace[j].tier
    /\ Cardinality(Entries(2, "enter")) <= 1
    /\ Cardinality(Entries(3, "probe")) <= 1
    /\ Cardinality(Entries(4, "enter")) <= 1
    /\ Cardinality(Entries(5, "visit")) <= 1

\* C15, its case: all five tiers acted for one card
C15_AllTiersActed ==
    /\ Entries(1, "visit") # {} /\ Entries(2, "enter") # {}
    /\ Entries(3, "probe") # {} /\ Entries(4, "enter") # {}
    /\ Entries(5, "visit") # {}

\* the positions of trace that are canonical-URL visits of tiers 3 and 4
ProbeVisits ==
    {i \in 1..Len(trace) : trace[i].what = "visit" /\ trace[i].tier \in 3..4}

\* C28: once the probe tier is entered, the canonical-URL visits that follow
\* are driven by the identifiers of the records of the post-probe
\* re-extraction or, when these carry none, by the identifiers scanned from
\* the raw text: each visit of tier 3 goes to one of these identifiers, each
\* identifier is visited once, and the visits number at most the per-card
\* limit.
C28_ProbeVisitsOncePerIdentifier ==
    Entries(3, "probe") # {} =>
        /\ \A i \in Entries(3, "visit") : trace[i].dai \in Range(probe_cands)
        /\ \A i, j \in ProbeVisits : i < j => trace[i].dai # trace[j].dai
        /\ ~per_card_limit.none => Cardinality(ProbeVisits) <= per_card_limit.v

\* ------------------------------------------------------------- finalization
\* main, after the crawl: the frames of the start URLs are concatenated,
\* normalised, deduplicated, sorted and written, then summarised per
\* identifier and kind. The columns source_url and scraped_at take no part in
\* any of these steps and are left out of the rows.

MaxRows == 3   \* rows collected over all start URLs

\* rows as _collect_from_v13 appends them
FinalRows ==
    {RowOf(Rec(<<"1", "2", "3">>, 45, "BIG")), RowOf(Rec(<<"1", "2", "3">>, 12, "REG")),
     RowOf(Rec(<<"9", "9", "9">>, 300, "BIG")), RowOf(Rec(<<"1", "2", "3">>, 12, "BIG")),
     RowOf(Rec(<<"4", "5">>, 45, "BIG")), RowOf(Rec(None, 45, "BIG")),
     RowOf(Rec(None, 12, "REG"))}

\* hits_df["kind"].str.upper().replace({full-width BIG: "BIG", ...})
KindUpper(k) ==
    CASE k \in {"BIG", "big", "FWBIG"} -> "BIG"
      [] k \in {"REG", "reg", "FWREG"} -> "REG"
      [] OTHER -> k

\* the two normalising assignments, on one row
NormaliseRow(r) ==
    [dai |-> IF r.dai # None THEN _to_dai_str(r.dai) ELSE None, game |-> r.game,
     kind |-> KindUpper(r.kind)]

Normalise(frame) == [i \in 1..Len(frame) |-> NormaliseRow(frame[i])]

\* drop_duplicates(subset=[dai, game, kind]): the first of equal rows is
\* kept, and a missing identifier equals a missing identifier
KeepNew(kept, r) == IF \E i \in 1..Len(kept) : kept[i] = r THEN kept ELSE Append(kept, r)

KeepNewNaDistinct(kept, r) ==
    IF r.dai # None /\ \E i \in 1..Len(kept) : kept[i] = r THEN kept ELSE Append(kept, r)

RECURSIVE DropDuplicatesNaDistinct(_)
DropDuplicatesNaDistinct(frame) ==
    IF frame = <<>> THEN <<>>
    ELSE KeepNewNaDistinct(DropDuplicatesNaDistinct(SubSeq(frame, 1, Len(frame) - 1)),
                           frame[Len(frame)])

RECURSIVE DropDuplicates(_)
DropDuplicates(frame) ==
    IF frame = <<>> THEN <<>>
    ELSE KeepNew(DropDuplicates(SubSeq(frame, 1, Len(frame) - 1)), frame[Len(frame)])

\* the order of Python strings, on strings of digits: -1, 0, 1
RECURSIVE StrCmp(_, _)
StrCmp(x, y) ==
    IF x = <<>> \/ y = <<>>
    THEN (IF x = y THEN 0 ELSE IF x = <<>> THEN 0 - 1 ELSE 1)
    ELSE IF DigitVal(Head(x)) < DigitVal(Head(y)) THEN 0 - 1
    ELSE IF DigitVal(Head(x)) > DigitVal(Head(y)) THEN 1
    ELSE StrCmp(Tail(x), Tail(y))

\* na_position="last" on the identifier column
DaiCmp(a, b) ==
    IF a = None \/ b = None
    THEN (IF a = b THEN 0 ELSE IF b = None THEN 0 - 1 ELSE 1)
    ELSE StrCmp(a, b)

\* sort_values([dai, game, kind]): a sorts strictly before b
RowBefore(a, b) ==
    \/ DaiCmp(a.dai, b.dai) < 0
    \/ /\ DaiCmp(a.dai, b.dai) = 0
       /\ \/ a.game < b.game
          \/ a.game = b.game /\ a.kind = "BIG" /\ b.kind = "REG"

InsertRowFirst(sorted, r) == <<r>> \o sorted

RECURSIVE InsertRow(_, _)
InsertRow(sorted, r) ==
    IF sorted # <<>> /\ RowBefore(r, sorted[Len(sorted)])
    THEN Append(InsertRow(SubSeq(sorted, 1, Len(sorted) - 1), r), sorted[Len(sorted)])
    ELSE Append(sorted, r)

RECURSIVE SortValues(_)
SortValues(frame) ==
    IF frame = <<>> THEN <<>>
    ELSE InsertRow(SortValues(SubSeq(frame, 1, Len(frame) - 1)), frame[Len(frame)])

\* dropna(subset=[dai])
HasDai(r) == r.dai # None

DropNaKeep(frame) == frame

DropNa(frame) == SelectSeq(frame, HasDai)

\* numbers of the summary: a fraction in lowest terms, or NaN
RECURSIVE GCD(_, _)
GCD(a, b) == IF b = 0 THEN a ELSE GCD(b, a % b)

NaN == [nan |-> TRUE, num |-> 0, den |-> 1]
Num(n, d) == [nan |-> FALSE, num |-> n \div GCD(n, d), den |-> d \div GCD(n, d)]
FillNa(v) == IF v.nan THEN Num(0, 1) ELSE v

RECURSIVE SumGames(_)
SumGames(frame) == IF frame = <<>> THEN 0 ELSE frame[1].game + SumGames(Tail(frame))

\* the rows of one identifier and kind
Group(src, d, k) == SelectSeq(src, LAMBDA r : r.dai = d /\ r.kind = k)

\* one cell of the pivot: NaN where the identifier has no row of the kind
Aggregate(a, grp) ==
    IF grp = <<>> THEN NaN
    ELSE IF a = "count" THEN Num(Len(grp), 1) ELSE Num(SumGames(grp), Len(grp))

\* f"{a}_{b}"
ColName(a, b) ==
    CASE a = "count" /\ b = "BIG" -> "count_BIG" [] a = "count" /\ b = "REG" -> "count_REG"
      [] a = "mean" /\ b = "BIG" -> "mean_BIG" [] a = "mean" /\ b = "REG" -> "mean_REG"

\* the kinds of a column name
ColKind(c) == IF c \in {"count_BIG", "mean_BIG"} THEN "BIG" ELSE "REG"
ColFunc(c) == IF c \in {"count_BIG", "count_REG"} THEN "count" ELSE "mean"

\* sort_index(): the index in string order
RECURSIVE InsertId(_, _)
InsertId(sorted, d) ==
    IF sorted # <<>> /\ DaiCmp(d, sorted[Len(sorted)]) < 0
    THEN Append(InsertId(SubSeq(sorted, 1, Len(sorted) - 1), d), sorted[Len(sorted)])
    ELSE Append(sorted, d)

RECURSIVE SortIndex(_)
SortIndex(ids) ==
    IF ids = <<>> THEN <<>>
    ELSE InsertId(SortIndex(SubSeq(ids, 1, Len(ids) - 1)), ids[Len(ids)])

\* the index of the pivot: the identifiers of src, each once
PivotIndex(src) == SortIndex(DropDuplicates([i \in 1..Len(src) |-> src[i].dai]))

\* the columns of the pivot: one per function and kind that occurs in src
PivotColumns(src) ==
    {ColName(a, src[i].kind) : a \in {"count", "mean"}, i \in 1..Len(src)}

\* pivot_table(index=dai, columns=kind, values=game, aggfunc=[count, mean])
\* .sort_index().fillna(0), with the columns renamed
PivotRow(src, d, cols) ==
    [dai |-> d,
     cells |-> [c \in cols |-> FillNa(Aggregate(ColFunc(c), Group(src, d, ColKind(c))))]]

PivotOver(src, index, cols) == [i \in 1..Len(index) |-> PivotRow(src, index[i], cols)]

PivotTable(src) == PivotOver(src, PivotIndex(src), PivotColumns(src))

\* the crawl is over when main starts to finalize; before that,
\* `if not df.empty: all_rows.append(df)` for one start URL
FinalInit ==
    /\ all_rows = <<>> /\ hits_df = <<>> /\ agg = <<>> /\ saved = {} /\ fpc = "collect"
    /\ TextIdle /\ RingIdle /\ BatchIdle /\ CascadeIdle /\ HitIdle /\ CardIdle

FinalCollect ==
    /\ fpc = "collect"
    /\ \E df \in SeqsUpTo(FinalRows, MaxRows - Len(Flatten(all_rows))) :
          all_rows' = IF df = <<>> THEN all_rows ELSE Append(all_rows, df)
    /\ UNCHANGED <<hits_df, agg, saved, fpc, textVars, ringVars, batchVars, cascadeVars,
                   hitVars, cardVars>>

\* if not all_rows: return; else hits_df = pd.concat(all_rows)
FinalConcat ==
    /\ fpc = "collect"
    /\ IF all_rows = <<>>
       THEN fpc' = "empty" /\ hits_df' = hits_df
       ELSE fpc' = "detail" /\ hits_df' = Flatten(all_rows)
    /\ UNCHANGED <<all_rows, agg, saved, textVars, ringVars, batchVars, cascadeVars,
                   hitVars, cardVars>>

\* normalise, drop_duplicates, sort_values, to_csv
FinalDetail ==
    /\ fpc = "detail"
    /\ hits_df' = SortValues(DropDuplicates(Normalise(hits_df)))
    /\ saved' = saved \cup {"hits"}
    /\ fpc' = "aggregate"
    /\ UNCHANGED <<all_rows, agg, textVars, ringVars, batchVars, cascadeVars,
                   hitVars, cardVars>>

\* agg_src = hits_df.dropna(...); if agg_src.empty: return; else the pivot
\* and to_csv
FinalSummary ==
    /\ fpc = "aggregate"
    /\ IF DropNa(hits_df) = <<>>
       THEN fpc' = "detail_only" /\ UNCHANGED <<agg, saved>>
       ELSE /\ agg' = PivotTable(DropNa(hits_df))
            /\ saved' = saved \cup {"summary"}
            /\ fpc' = "both"
    /\ UNCHANGED <<all_rows, hits_df, textVars, ringVars, batchVars, cascadeVars,
                   hitVars, cardVars>>

FinalNext == FinalCollect \/ FinalConcat \/ FinalDetail \/ FinalSummary

SpecFinal == FinalInit /\ [][FinalNext]_vars

\* the rows collected by the crawl, and whether the detail frame is final
Collected == Flatten(all_rows)
DetailDone == fpc \in {"aggregate", "detail_only", "both"}

\* C16: the final detail rows hold no (identifier, gameCount, kind) twice,
\* rows without identifier included, and their set of triples is the set of
\* triples of the collected records.
C16_DetailDeduplicated ==
    DetailDone =>
        /\ \A i, j \in 1..Len(hits_df) : i # j => hits_df[i] # hits_df[j]
        /\ Range(hits_df) = Range(Collected)

\* C16, its case: two equal rows without identifier were collected
C16_AbsentDuplicateCollapsed ==
    /\ DetailDone
    /\ \E i, j \in 1..Len(Collected) :
          i # j /\ Collected[i] = Collected[j] /\ Collected[i].dai = None

\* C17: the final detail rows are in ascending order of (identifier,
\* gameCount, kind), identifiers in string order, and every row without
\* identifier comes after every row with one.
C17_DetailSorted ==
    DetailDone =>
        \A i, j \in 1..Len(hits_df) :
            i < j =>
                LET a == hits_df[i]
                    b == hits_df[j]
                IN /\ a.dai = None => b.dai = None
                   /\ (a.dai # None /\ b.dai # None) => StrCmp(a.dai, b.dai) <= 0
                   /\ a.dai = b.dai => a.game <= b.game
                   /\ (a.dai = b.dai /\ a.game = b.game) =>
                          (a.kind = b.kind \/ (a.kind = "BIG" /\ b.kind = "REG"))

\* C17, its case: rows collected out of order, one of them without identifier
\* and collected first
C17_SortedFromDisorder ==
    /\ DetailDone
    /\ Len(hits_df) = 3
    /\ Collected[1].dai = None
    /\ Collected # hits_df

\* C18: the summary has one row per identifier of the detail rows, and for
\* each kind K of BIG and REG the row has a count_K, the number of the
\* identifier's detail rows of kind K, and a mean_K, the sum of their
\* gameCounts divided by count_K.
C18_SummaryPerKind ==
    fpc = "both" =>
        /\ \A i, j \in 1..Len(agg) : i # j => agg[i].dai # agg[j].dai
        /\ {agg[i].dai : i \in 1..Len(agg)} = {r.dai : r \in Range(hits_df)} \ {None}
        /\ \A i \in 1..Len(agg), k \in {"BIG", "REG"} :
              LET grp == Group(hits_df, agg[i].dai, k)
                  cells == agg[i].cells
              IN /\ ColName("count", k) \in DOMAIN cells
                 /\ ColName("mean", k) \in DOMAIN cells
                 /\ cells[ColName("count", k)] = Num(Len(grp), 1)
                 /\ grp # <<>> =>
                       cells[ColName("mean", k)].num * Len(grp)
                           = SumGames(grp) * cells[ColName("mean", k)].den

\* C19: main returns in exactly one of three ways: nothing collected and
\* nothing written; rows collected, none with an identifier, and only the
\* detail written; or detail and summary both written.
C19_ThreeOutcomes ==
    /\ fpc \in {"collect", "detail", "aggregate", "empty", "detail_only", "both"}
    /\ fpc = "empty" => Collected = <<>> /\ saved = {}
    /\ fpc = "detail_only" =>
          /\ Collected # <<>> /\ \A r \in Range(Collected) : r.dai = None
          /\ saved = {"hits"}
    /\ fpc = "both" =>
          /\ \E r \in Range(Collected) : r.dai # None
          /\ saved = {"hits", "summary"}

\* C19, its case: rows were collected and none has an identifier
C19_DetailOnly == fpc = "detail_only" /\ Len(hits_df) = 2

\* C20 as stated: every sample ever pushed into the ring has a URL with a
\* configured keyword or a textual content-type, and a body size under the
\* byte ceiling.
C20_SamplesUnderCeiling ==
    \A i \in 1..Len(pushed) :
        /\ pushed[i].url.kw \/ Textual(pushed[i].ct)
        /\ pushed[i].size < RespMaxBytes

\* C20, amended: every sample ever pushed into the ring has a URL with a
\* configured keyword or a textual content-type, and a non-empty body of at
\* most the byte ceiling.
C20_SamplesWithinCeiling ==
    \A i \in 1..Len(pushed) :
        /\ pushed[i].url.kw \/ Textual(pushed[i].ct)
        /\ pushed[i].size > 0 /\ pushed[i].size <= RespMaxBytes

\* C20, its case: a response whose body is exactly the ceiling was pushed
C20_CeilingSampleInRing ==
    \E i \in 1..Len(buf) : buf[i].size = RespMaxBytes

\* C21: however pushes and snapshots interleave, no push is returned by more
\* than one snapshot_and_clear, a push not yet followed by a snapshot has been
\* returned by none, and a push that no later push evicted has been returned
\* once the first snapshot after it was taken.
C21_DeliveredOnce ==
    \A n \in 1..Len(fate) :
        /\ fate[n].times <= 1
        /\ ~fate[n].passed => fate[n].times = 0
        /\ (fate[n].passed /\ ~fate[n].evicted) => fate[n].times = 1

\* C21, its case: a snapshot between pushes: one push delivered, one evicted
\* before its snapshot, one still waiting in the buffer
C21_Interleaved ==
    \E k, m, n \in 1..Len(fate) :
        /\ fate[k].times = 1
        /\ fate[m].passed /\ fate[m].evicted
        /\ ~fate[n].passed /\ n \in {seqnos[i] : i \in 1..Len(seqnos)}

\* C26: a push whose file could not be written leaves the ring as a
\* successful one does: every push since the last snapshot that no later push
\* evicted is in the buffer, at the place of its number, whatever is on disk.
C26_FailedWriteKeepsSample ==
    /\ counter = Len(fate)
    /\ Len(seqnos) = Len(buf)
    /\ \A n \in 1..Len(fate) :
          (~fate[n].passed /\ ~fate[n].evicted) =>
              \E i \in 1..Len(buf) :
                  seqnos[i] = n /\ buf[i] = pushed[n - (counter - Len(pushed))]

\* C26, its case: a sample is in the buffer and its file was not written
C26_UnwrittenSampleInRing ==
    \E i \in 1..Len(seqnos) : \A f \in disk : f.n # seqnos[i]

\* --------------------------------------------------------- hit-extraction runs
\* the normaliser and the hit extractors applied to one text: every caller
\* of _scan_line_for_hits passes it normalised text

MaxHitDigits == 3   \* digits of a written game count

HitDigits == <<"4", "5", "1", "2", "3", "6", "7">>
HitNumber(ds, v) == [s |-> ds, v |-> v]
HitNumbers ==
    {HitNumber(SubSeq(HitDigits, 1, k), DigitsVal(SubSeq(HitDigits, 1, k))) :
        k \in 1..MaxHitDigits}
    \cup {HitNumber(<<"1", "2", "3">>, 123), HitNumber(<<"FW4", "FW5">>, 45)}

\* the kind tokens of RE_KIND as they are written, and the family the
\* synonym table puts them in
KindToken(ts, fam) == [s |-> ts, fam |-> fam]
KindTokens ==
    {KindToken(<<"B", "I", "G">>, "BIG"), KindToken(<<"b", "i", "g">>, "BIG"),
     KindToken(<<"FWB", "FWI", "FWG">>, "BIG"), KindToken(<<"B", "-", "B">>, "BIG"),
     KindToken(<<"B", "B">>, "BIG"), KindToken(<<"kBI", "kTSU", "kGU">>, "BIG"),
     KindToken(<<"R", "E", "G">>, "REG"), KindToken(<<"r", "e", "g">>, "REG"),
     KindToken(<<"FWR", "FWE", "FWG">>, "REG"), KindToken(<<"R", "-", "B">>, "REG"),
     KindToken(<<"R", "B">>, "REG"), KindToken(<<"kRE", "kGI", "kYU", "kRA">>, "REG")}

Pair(g, k) == [game |-> g, kind |-> k]
HitInput(l, ps) == [line |-> l, expect |-> ps]

\* one hit, written <n>[G]<kind> or <kind><n>[G]
SingleHitLines ==
    {HitInput(IF first THEN n.s \o unit \o sep \o k.s ELSE k.s \o sep \o n.s \o unit,
              <<Pair(n.v, k.fam)>>) :
        n \in HitNumbers, k \in KindTokens, unit \in {<<>>, <<"G">>},
        sep \in {<<>>, <<" ">>}, first \in BOOLEAN}

\* a thousands separator; several hits in sequence; lines with identifiers
OtherHitLines ==
    {HitInput(<<"1", ",", "2", "3", "4", "G", " ", "B", "I", "G">>, <<Pair(1234, "BIG")>>),
     HitInput(<<" ", "4", "5", "G", " ", " ", "B", "I", "G", "NL">>, <<Pair(45, "BIG")>>),
     HitInput(<<"B", "I", "G", " ", "4", "5", " ", "R", "E", "G", " ", "1", "2">>,
              <<Pair(45, "BIG"), Pair(12, "REG")>>),
     HitInput(<<"1", "2", "3", "G", " ", "B", "I", "G", " ", "4", "5", "G", " ", "R", "E", "G">>,
              <<Pair(123, "BIG"), Pair(45, "REG")>>),
     HitInput(T123Big45, <<Pair(45, "BIG")>>),
     HitInput(T123Big45 \o <<"NL">> \o T999Reg12, <<Pair(45, "BIG"), Pair(12, "REG")>>),
     HitInput(<<"x">>, <<>>)}

HitInit ==
    /\ \E in \in SingleHitLines \cup OtherHitLines :
          hit_line = in.line /\ hit_expect = in.expect
    /\ hit_norm = <<>> /\ hit_out = <<>> /\ hit_parsed = Parsed(<<>>, <<>>) /\ hpc = "in"
    /\ TextIdle /\ RingIdle /\ BatchIdle /\ CascadeIdle /\ FinalIdle /\ CardIdle

HitNormalise ==
    /\ hpc = "in"
    /\ hit_norm' = _normalize_text(hit_line)
    /\ hpc' = "norm"
    /\ UNCHANGED <<hit_line, hit_expect, hit_out, hit_parsed, textVars, ringVars,
                   batchVars, cascadeVars, finalVars, cardVars>>

HitScan ==
    /\ hpc = "norm"
    /\ hit_out' = _scan_line_for_hits(hit_norm)
    /\ hpc' = "scanned"
    /\ UNCHANGED <<hit_line, hit_expect, hit_norm, hit_parsed, textVars, ringVars,
                   batchVars, cascadeVars, finalVars, cardVars>>

\* the text delivered as the body of a JSON response: json.loads fails
HitJsonText ==
    /\ hpc = "in"
    /\ hit_parsed' = _parse_hit_records_from_json_text(TextBody(hit_line))
    /\ hpc' = "parsed"
    /\ UNCHANGED <<hit_line, hit_expect, hit_norm, hit_out, textVars, ringVars,
                   batchVars, cascadeVars, finalVars, cardVars>>

HitNext == HitNormalise \/ HitScan \/ HitJsonText

SpecHits == HitInit /\ [][HitNext]_vars

HasComma(t) == \E i \in 1..Len(t) : t[i] = ","

\* C23: the normalised text holds no comma, no two whitespace characters in
\* a row and none at either end, and a hit written with a thousands
\* separator is extracted with the whole number as its gameCount.
C23_CommasRemoved ==
    /\ hpc \in {"norm", "scanned"} =>
          /\ ~HasComma(hit_norm)
          /\ \A i \in 1..Len(hit_norm) :
                hit_norm[i] \in WhiteSpace =>
                    /\ i # 1 /\ i # Len(hit_norm)
                    /\ hit_norm[i + 1] \notin WhiteSpace
    /\ (hpc = "scanned" /\ HasComma(hit_line)) => hit_out = hit_expect

\* C24: a normalised line that holds one hit, written <n>[G]<kind> or
\* <kind><n>[G] with any kind token of the synonym table, yields exactly
\* the hit (n, K), K being REG for the tokens of the REG family and BIG for
\* the others.
C24_SingleHitExtracted ==
    (hpc = "scanned" /\ Len(hit_expect) = 1 /\ ~HasComma(hit_line)) =>
        hit_out = hit_expect

\* C24, its case: full-width "REG45" was scanned
C24_FullWidthReg45 ==
    /\ hpc = "scanned"
    /\ hit_line = <<"FWR", "FWE", "FWG", "FW4", "FW5">>
    /\ hit_out = <<Pair(45, "REG")>>

\* the result of scanning a whole text as one unit with the text extractors
ScanOfText(t, d) ==
    Parsed([i \in 1..Len(_scan_line_for_hits(t)) |->
               [dai |-> _to_dai_str(d), game |-> _scan_line_for_hits(t)[i].game,
                kind |-> _scan_line_for_hits(t)[i].kind]],
           IF d # None THEN <<d>> ELSE <<>>)

C29_OneHitPerNumber ==
    (hpc = "scanned" /\ ~HasComma(hit_line)) =>
        /\ Len(hit_out) = Len(hit_expect)
        /\ \A i \in 1..Len(hit_out) : \E j \in 1..Len(hit_expect) : hit_out[i] = hit_expect[j]

\* ----------------------------------------------------------- the card loop
\* _collect_from_v13: one listener and one ring for the whole listing, then
\* for each card: click, cascade, rows, close. The cascade is taken as the
\* sequence of its extraction batches (each a _parse_using_ctx_and_ring on the
\* page then loaded and the ring's snapshot) or its abort.

MaxCards == 2       \* cards of the listing
MaxBatches == 2     \* extraction batches of one card's cascade
MaxCardResp == 3    \* responses captured over the whole listing

\* total = min(cards.count(), max_cards); ring = attach_global_response_listener
CardInit ==
    /\ total \in 0..MaxCards
    /\ card = 1
    /\ cpc = IF total = 0 THEN "done" ELSE "click"
    /\ batches = 0 /\ recs = <<>> /\ results = <<>> /\ cards_run = <<>>
    /\ born = <<>> /\ used = {}
    /\ capacity = RespRingCapacity
    /\ buf = <<>> /\ counter = 0 /\ disk = {}
    /\ snapshot = <<>> /\ pushed = <<>> /\ consumed = <<>>
    /\ seqnos = <<>> /\ fate = <<>>
    /\ TextIdle /\ BatchIdle /\ CascadeIdle /\ FinalIdle /\ HitIdle

\* card = cards.nth(i); card.click; _open_detail_if_needed; scrolling
CardClick ==
    /\ cpc = "click"
    /\ cpc' = "drill" /\ batches' = 0 /\ recs' = <<>>
    /\ cards_run' = Append(cards_run, card)
    /\ UNCHANGED <<total, card, results, born, used>>
    /\ UNCHANGED <<hitVars, finalVars, textVars, ringVars, batchVars, cascadeVars>>

\* the listener, attached once before the loop, takes a response whenever the
\* page loads something: after the click, while a visited page settles, and
\* during the card's closing go_back / wait_for_load_state
CardOnResponse ==
    /\ cpc \in {"drill", "fallback", "close"}
    /\ counter < MaxCardResp
    /\ \E resp \in CascadeResponses, bodyRaises \in BOOLEAN :
          OnResponseOf(resp, bodyRaises, TRUE)
    /\ born' = IF counter' > counter THEN Append(born, card) ELSE born
    /\ UNCHANGED <<total, card, cpc, batches, recs, results, cards_run, used>>
    /\ UNCHANGED <<hitVars, finalVars, textVars, batchVars, cascadeVars>>

\* the samples a batch of the running card takes from the ring
UsedBy(ns, c) == {[n |-> ns[i], by |-> c] : i \in 1..Len(ns)}

\* one extraction batch of _drill_dai_links: out_records.extend(recs)
CardBatch ==
    /\ cpc = "drill"
    /\ batches < MaxBatches
    /\ blobs' \in Pages
    /\ SnapshotAndClear
    /\ raw' = Gathered(blobs', buf)
    /\ records' = _parse_using_ctx_and_ring(blobs', buf)
    /\ recs' = recs \o records'
    /\ used' = used \cup UsedBy(seqnos, card)
    /\ batches' = batches + 1
    /\ UNCHANGED <<total, card, cpc, results, cards_run, born>>
    /\ UNCHANGED <<hitVars, finalVars, textVars, rows, bpc, cascadeVars>>

\* _visit_href reaches the undefined _click_dai_by_text_ctx: NameError leaves
\* _drill_dai_links, the loop, _collect_from_v13 and main's loop
CardAbort ==
    /\ cpc = "drill"
    /\ cpc' = "aborted"
    /\ UNCHANGED <<total, card, batches, recs, results, cards_run, born, used>>
    /\ UNCHANGED <<hitVars, finalVars, textVars, ringVars, batchVars, cascadeVars>>

\* _drill_dai_links returns (its tier 5 sees to it that a batch was run);
\* if not recs: the caller's own extraction; else the rows of the card
CardDrillEnd ==
    /\ cpc = "drill"
    /\ batches >= 1
    /\ IF recs = <<>>
       THEN cpc' = "fallback" /\ results' = results
       ELSE /\ cpc' = "close"
            /\ results' = Append(results, [i \in 1..Len(recs) |-> RowOf(recs[i])])
    /\ UNCHANGED <<total, card, batches, recs, cards_run, born, used>>
    /\ UNCHANGED <<hitVars, finalVars, textVars, ringVars, batchVars, cascadeVars>>

\* recs = _visit_and_parse_current(page, ring), then the rows of the card
CardFallback ==
    /\ cpc = "fallback"
    /\ blobs' \in Pages
    /\ SnapshotAndClear
    /\ raw' = Gathered(blobs', buf)
    /\ records' = _parse_using_ctx_and_ring(blobs', buf)
    /\ recs' = records'
    /\ used' = used \cup UsedBy(seqnos, card)
    /\ results' = Append(results, [i \in 1..Len(records') |-> RowOf(records'[i])])
    /\ cpc' = "close"
    /\ UNCHANGED <<total, card, batches, cards_run, born>>
    /\ UNCHANGED <<hitVars, finalVars, textVars, rows, bpc, cascadeVars>>

\* go_back or the modal's close button, both failing silently; then the next
\* card, or return pd.DataFrame(rows)
CardClose ==
    /\ cpc = "close"
    /\ card' = card + 1
    /\ cpc' = IF card = total THEN "done" ELSE "click"
    /\ UNCHANGED <<total, batches, recs, results, cards_run, born, used>>
    /\ UNCHANGED <<hitVars, finalVars, textVars, ringVars, batchVars, cascadeVars>>

CardNext ==
    \/ CardClick \/ CardOnResponse \/ CardBatch \/ CardAbort \/ CardDrillEnd
    \/ CardFallback \/ CardClose

SpecCards == CardInit /\ [][CardNext]_vars

\* C22: every response sample consumed by an extraction batch while card i
\* is processed was captured while card i was processed: no sample captured
\* during an earlier card (for example during its closing back-navigation)
\* reaches a batch of a later card.
C22_SamplesOfOwnCard ==
    \A u \in used : born[u.n] = u.by

\* C27: the crawl of a listing of N cards is never cut short, and when it
\* has finished the cascade has run once for each of the N cards, in listing
\* order, and each card has yielded its (possibly empty) result.
C27_EveryCardRun ==
    /\ cpc # "aborted"
    /\ cpc = "done" =>
          /\ cards_run = [i \in 1..total |-> i]
          /\ Len(results) = total
====
